---- MODULE Spec2Model ----
(***************************************************************************)
(* Computation core of the marketing dashboard:                            *)
(*   - the rolling CPA engine, its integrity guard and the change          *)
(*     classifier (src/src/components/FacebookCSVUpload.tsx, lines         *)
(*     487-782),                                                           *)
(*   - the standalone mock-data detector (src/src/utils/dataValidation.ts),*)
(*   - the CSV normaliser and the chart series builder                     *)
(*     (src/src/utils/facebookCSVParser.ts).                               *)
(*                                                                         *)
(* A caller holds a collection (history): DailyMetrics records, rolling    *)
(* results or the rows of an export file.  It grows the collection and     *)
(* applies the pure functions of the code to it.  Each application is one  *)
(* action that records the arguments (call) and the outcome (ret): a       *)
(* returned value or the Error that was thrown.  Each group of functions   *)
(* has its own specification (Spec, SpecGuard, SpecClassify, SpecChart,    *)
(* SpecCsv) over the same variables.                                       *)
(*                                                                         *)
(* Numbers.  spend and conversions are drawn from small sets of naturals.  *)
(* Every quotient the code forms (costPerConversion, the rolling average,  *)
(* changePercent) is kept as an exact fraction <<n, d>> in lowest terms    *)
(* with d > 0, so equality and order are those of the rationals; the       *)
(* rounding of IEEE doubles is not modelled.                               *)
(*                                                                         *)
(* Time.  A date string 'YYYY-MM-DD' is a day number; new Date(string) of  *)
(* a date-only ISO string is UTC midnight of that day, here day * 24 in    *)
(* hours.  Date.prototype.getDate / setDate work on the LOCAL calendar     *)
(* fields, so setDate(getDate() - 6) lands on the same local wall-clock    *)
(* time six local days earlier; its UTC instant differs from "144 hours    *)
(* earlier" by the change of the zone's UTC offset between the two local   *)
(* times.  That change (dstShift, in hours) is an input of each call: 0 in *)
(* a zone without a transition in the span, +1 when the clocks went        *)
(* forward inside it, -1 when they went back.                              *)
(***************************************************************************)
EXTENDS Integers, Sequences, FiniteSets, TLC

VARIABLES
    history,    \* the collection the caller holds, in ingestion order
    rowsAdded,  \* number of single items ingested so far (bounds the run)
    call,       \* arguments of the last function application, or NoCall
    ret         \* its outcome: returned value, thrown Error, or NoRet

\* The Google Ads sync (src/scripts/sync-google-ads.js), one run of the script
VARIABLES
    pc,           \* where syncAdGroupPerformance stands
    isDryRun,     \* this.isDryRun: DRY_RUN === 'true'
    supabase,     \* whether this.supabase is a client (SUPABASE_URL is set)
    enrichedData, \* the rows the run has prepared
    savedFile,    \* data/google-ads-adgroups.json, or NoFile
    upserts       \* the batches passed to supabase upsert, in order

\* The upload component (FacebookCSVUpload.tsx, lines 12-281)
VARIABLES
    file,         \* useState: the selected file, or Null
    isProcessing, \* useState
    parsedData,   \* useState: a ParsedFacebookData, or Null
    chartData,    \* useState: the chart series
    parses        \* the calls of handleFileSelect that have not finished

callerVars == <<history, rowsAdded, call, ret>>
syncVars == <<pc, isDryRun, supabase, enrichedData, savedFile, upserts>>
uiVars == <<file, isProcessing, parsedData, chartData, parses>>
vars == <<callerVars, syncVars, uiVars>>

---------------------------------------------------------------------------
(* Bounds of the model *)

MaxRows == 2
SeriesLen == 10
MaxDay == 11

Days == 1..MaxDay
\* Dates a single ingested record may carry: six days apart, so that for the
\* target date 8 they are the first and the last day of the window, for a
\* later target date the first is before the window and for an earlier one
\* the second is after the target date.
RowDays == {2, 8}
DstShifts == {-1, 0, 1}

---------------------------------------------------------------------------
(* Exact fractions *)

Abs(x) == IF x < 0 THEN -x ELSE x

RECURSIVE GCD(_, _)
GCD(a, b) == IF b = 0 THEN a ELSE GCD(b, a % b)

\* n / d for d # 0, in lowest terms with a positive denominator
Frac(n, d) ==
    LET g == GCD(Abs(n), Abs(d))
        s == IF d < 0 THEN -1 ELSE 1
    IN  <<(s * n) \div g, (s * d) \div g>>

Zero == <<0, 1>>
FracOfInt(n) == <<n, 1>>
FracSub(p, q) == Frac(p[1] * q[2] - q[1] * p[2], p[2] * q[2])
FracMul(p, q) == Frac(p[1] * q[1], p[2] * q[2])
FracDiv(p, q) == Frac(p[1] * q[2], p[2] * q[1])
FracLt(p, q) == p[1] * q[2] < q[1] * p[2]
FracAbs(p) == <<Abs(p[1]), p[2]>>

---------------------------------------------------------------------------
(* DailyMetrics records *)

\* costPerConversion as every producer of DailyMetrics derives it
CostPerConversion(spend, conversions) ==
    IF conversions > 0 THEN Frac(spend, conversions) ELSE Zero

DailyMetrics(ad, date, spend, conversions) ==
    [date |-> date,
     platform |-> ad.platform,
     adSetId |-> ad.adSetId,
     adSetName |-> ad.adSetName,
     spend |-> spend,
     conversions |-> conversions,
     costPerConversion |-> CostPerConversion(spend, conversions)]

AdSets ==
    {[adSetId |-> "fb_alpha_000", adSetName |-> "Alpha", platform |-> "facebook"],
     [adSetId |-> "gads_77", adSetName |-> "Beta", platform |-> "google"]}

\* <<spend, conversions>> of a day: a steady ad set (CPA 10), a day without
\* conversions, and two days whose ratio of sums is 20 (21 is 5% above it,
\* 19 is 5% below it).
DayValues == {<<100, 10>>, <<50, 0>>, <<21, 1>>, <<19, 1>>}
SeriesValues == {<<100, 10>>}

Records ==
    {DailyMetrics(ad, d, v[1], v[2]) : ad \in AdSets, d \in RowDays, v \in DayValues}

\* One record per day for the days 1..n, all with the same figures
DailySeries(ad, v, n) == [d \in 1..n |-> DailyMetrics(ad, d, v[1], v[2])]

---------------------------------------------------------------------------
(* Sequence helpers: Array.prototype.filter / find / reduce / Set *)

RECURSIVE SumOf(_, _)
\* data.reduce((sum, record) => sum + record[field], 0)
SumOf(data, field) ==
    IF data = <<>> THEN 0 ELSE data[1][field] + SumOf(Tail(data), field)

\* Unique without the Set: every value kept
Unique_KeepAll(values) == values

RECURSIVE Unique(_)
\* [...new Set(values)]: the distinct values in order of first occurrence
Unique(values) ==
    IF values = <<>> THEN <<>>
    ELSE LET front == Unique(SubSeq(values, 1, Len(values) - 1))
             last == values[Len(values)]
         IN  IF \E i \in DOMAIN front : front[i] = last
             THEN front ELSE Append(front, last)

---------------------------------------------------------------------------
(* Date arithmetic *)

\* new Date('YYYY-MM-DD').getTime(), in hours: UTC midnight of the day
DateInstant(date) == date * 24

\* d.setDate(d.getDate() - days): the same local wall-clock time `days`
\* local days earlier; dstShift is the zone's UTC offset at d minus its UTC
\* offset at the earlier local time.
SetDateBack(instant, days, dstShift) == instant - days * 24 + dstShift

---------------------------------------------------------------------------
(* validateRealData *)

ErrNoHistory == "Historical data is required for rolling CPA calculation"
ErrMock == "Mock or suspicious data detected. Only real advertising data is allowed."
ErrFormat == "Invalid data format detected. All records must have date, adSetId, spend, and conversions."
ErrNegative == "Invalid data values. Spend and conversions cannot be negative."
ErrNoDayData == "No data available for the target date"
Valid == "valid"

NoDate == 0

\* /^(test|mock|fake|demo)_/i.test(s), on the strings of the model
MatchesTestPattern(s) ==
    s \in {"test_1", "Mock_set", "FAKE_x", "demo_campaign", "test_campaign"}

\* the value of (record.adSetId || record.adSetName)
IdOrName(record) == IF record.adSetId # "" THEN record.adSetId ELSE record.adSetName

\* The four suspicious patterns, in the order of the array of the code.
\* "All spend amounts are round numbers": every record, not a share of them
AllRoundSpend(data) ==
    \A i \in DOMAIN data : data[i].spend % 100 = 0 /\ data[i].spend > 100

SameCPA_MoreThanTwo(data) ==
    Len(data) > 2
    /\ Cardinality({data[i].costPerConversion : i \in DOMAIN data}) = 1

SameCPA(data) ==
    Len(data) > 1
    /\ Cardinality({data[i].costPerConversion : i \in DOMAIN data}) = 1

TestIds(data) == \E i \in DOMAIN data : MatchesTestPattern(IdOrName(data[i]))

UnrealisticConversions_Every(data) ==
    \A i \in DOMAIN data : data[i].conversions > data[i].spend

UnrealisticConversions(data) ==
    \E i \in DOMAIN data : data[i].conversions > data[i].spend

\* Valid when the function returns, otherwise the message of the Error thrown.
\* The typeof tests of the structural loop are vacuous here: every record of
\* the model carries integer spend and conversions.
validateRealData(data) ==
    LET idx == DOMAIN data
        badFormat(i) == data[i].date = NoDate \/ data[i].adSetId = ""
                        \/ data[i].spend \notin Int \/ data[i].conversions \notin Int
        negative(i) == data[i].spend < 0 \/ data[i].conversions < 0
        bad == {i \in idx : badFormat(i) \/ negative(i)}
    IN  IF AllRoundSpend(data) \/ SameCPA(data) \/ TestIds(data)
           \/ UnrealisticConversions(data)
        THEN ErrMock
        ELSE IF bad = {} THEN Valid
        ELSE LET first == CHOOSE i \in bad : \A j \in bad : i <= j
             IN  IF badFormat(first) THEN ErrFormat ELSE ErrNegative

---------------------------------------------------------------------------
(* calculateAdSetRollingCPA *)

WindowDaysBack == 6
StableBand == 5

Null == [kind |-> "null"]

RECURSIVE InsertByDateDesc(_, _)
\* position of a record in a list already ordered by date, newest first:
\* behind every record that is not older (the sort is stable)
InsertByDateDesc(sorted, record) ==
    IF sorted = <<>> THEN <<record>>
    ELSE IF DateInstant(sorted[1].date) >= DateInstant(record.date)
         THEN <<sorted[1]>> \o InsertByDateDesc(Tail(sorted), record)
         ELSE <<record>> \o sorted

RECURSIVE SortByDateDesc(_)
\* adSetData.sort((a, b) => new Date(b.date).getTime() - new Date(a.date).getTime())
SortByDateDesc(data) ==
    IF data = <<>> THEN <<>>
    ELSE InsertByDateDesc(SortByDateDesc(SubSeq(data, 1, Len(data) - 1)),
                          data[Len(data)])

\* LatestData without the search for the target date
LatestData_MostRecent(adSetData, targetDate) == adSetData[1]

\* adSetData.find(record => record.date === targetDate) || adSetData[0]
LatestData(adSetData, targetDate) ==
    LET hits == {i \in DOMAIN adSetData : adSetData[i].date = targetDate}
    IN  IF hits = {} THEN adSetData[1]
        ELSE adSetData[CHOOSE i \in hits : \A j \in hits : i <= j]

\* RollingData with the first day of the window left out (> for >=)
RollingData_AfterStart(adSetData, targetDate, dstShift) ==
    LET targetDateObj == DateInstant(targetDate)
        sevenDaysAgo == SetDateBack(targetDateObj, 6, dstShift)
    IN  SelectSeq(adSetData, LAMBDA record :
            /\ DateInstant(record.date) > sevenDaysAgo
            /\ DateInstant(record.date) <= targetDateObj)

\* the filter of lines 578-581, between sevenDaysAgo and targetDateObj
RollingData(adSetData, targetDate, dstShift) ==
    LET targetDateObj == DateInstant(targetDate)
        sevenDaysAgo == SetDateBack(targetDateObj, WindowDaysBack, dstShift)
        InWindow(record) ==
            LET recordDate == DateInstant(record.date)
            IN  recordDate >= sevenDaysAgo /\ recordDate <= targetDateObj
    IN  SelectSeq(adSetData, InWindow)

\* Trend with the band closed at 5 (<= for <)
Trend_ClosedBand(changePercent) ==
    IF ~FracLt(FracOfInt(5), FracAbs(changePercent)) THEN "stable"
    ELSE IF FracLt(Zero, changePercent) THEN "worsening"
    ELSE "improving"

\* lines 613-620
Trend(changePercent) ==
    IF FracLt(FracAbs(changePercent), FracOfInt(StableBand)) THEN "stable"
    ELSE IF FracLt(Zero, changePercent) THEN "worsening"
    ELSE "improving"

\* rolling7DayAvgCPA of lines 607: the ratio of the two sums
RollingAverage(totalSpend, totalConversions) == Frac(totalSpend, totalConversions)

\* NoConversionsResult reporting no change instead of the fixed 100%
NoConversionsResult_NoChange(latestData, rollingData) ==
    [adSetId |-> latestData.adSetId,
     adSetName |-> latestData.adSetName,
     platform |-> latestData.platform,
     currentDayCPA |-> latestData.costPerConversion,
     rolling7DayAvgCPA |-> Zero,
     changeFromRollingAvg |-> latestData.costPerConversion,
     changePercent |-> Zero,
     trend |-> "stable",
     dataPoints |-> Len(rollingData)]

\* the result returned at lines 594-604, when the window holds no conversion
NoConversionsResult(latestData, rollingData) ==
    [adSetId |-> latestData.adSetId,
     adSetName |-> latestData.adSetName,
     platform |-> latestData.platform,
     currentDayCPA |-> latestData.costPerConversion,
     rolling7DayAvgCPA |-> Zero,
     changeFromRollingAvg |-> latestData.costPerConversion,
     changePercent |-> FracOfInt(100),
     trend |-> "worsening",
     dataPoints |-> Len(rollingData)]

\* A RollingCPAResult, or Null
calculateAdSetRollingCPA(adSetData, targetDate, dstShift) ==
    IF Len(adSetData) = 0 THEN Null
    ELSE
    LET latestData == LatestData(adSetData, targetDate)
        rollingData == RollingData(adSetData, targetDate, dstShift)
        totalSpend == SumOf(rollingData, "spend")
        totalConversions == SumOf(rollingData, "conversions")
        rolling7DayAvgCPA == RollingAverage(totalSpend, totalConversions)
        changeFromRollingAvg == FracSub(latestData.costPerConversion, rolling7DayAvgCPA)
        changePercent ==
            IF FracLt(Zero, rolling7DayAvgCPA)
            THEN FracMul(FracDiv(changeFromRollingAvg, rolling7DayAvgCPA), FracOfInt(100))
            ELSE Zero
    IN  IF Len(rollingData) = 0 THEN Null
        ELSE IF totalConversions = 0 THEN NoConversionsResult(latestData, rollingData)
        ELSE
            [adSetId |-> latestData.adSetId,
             adSetName |-> latestData.adSetName,
             platform |-> latestData.platform,
             currentDayCPA |-> latestData.costPerConversion,
             rolling7DayAvgCPA |-> rolling7DayAvgCPA,
             changeFromRollingAvg |-> changeFromRollingAvg,
             changePercent |-> changePercent,
             trend |-> Trend(changePercent),
             dataPoints |-> Len(rollingData)]

---------------------------------------------------------------------------
(* calculateRollingCPA *)

Returned(value) == [status |-> "returned", value |-> value]
Threw(message) == [status |-> "threw", error |-> message]

RECURSIVE InsertByCPADesc(_, _)
\* position of a result in a list already ordered by currentDayCPA, highest
\* first: behind every result whose currentDayCPA is not lower
InsertByCPADesc(sorted, result) ==
    IF sorted = <<>> THEN <<result>>
    ELSE IF ~FracLt(sorted[1].currentDayCPA, result.currentDayCPA)
         THEN <<sorted[1]>> \o InsertByCPADesc(Tail(sorted), result)
         ELSE <<result>> \o sorted

\* SortByCPADesc without the sort
SortByCPADesc_Unsorted(results) == results

RECURSIVE SortByCPADesc(_)
\* results.sort((a, b) => b.currentDayCPA - a.currentDayCPA)
SortByCPADesc(results) ==
    IF results = <<>> THEN <<>>
    ELSE InsertByCPADesc(SortByCPADesc(SubSeq(results, 1, Len(results) - 1)),
                         results[Len(results)])

\* the loop of lines 535-547: one result per ad set id, in order of first
\* occurrence, ad sets without a result left out
AdSetResults(historicalData, targetDate, dstShift) ==
    LET adSetIds == Unique([i \in DOMAIN historicalData |-> historicalData[i].adSetId])
        ResultOf(adSetId) ==
            LET adSetData == SelectSeq(historicalData,
                                       LAMBDA record : record.adSetId = adSetId)
            IN  IF Len(adSetData) = 0 THEN Null
                ELSE calculateAdSetRollingCPA(SortByDateDesc(adSetData),
                                              targetDate, dstShift)
        all == [i \in DOMAIN adSetIds |-> ResultOf(adSetIds[i])]
    IN  SelectSeq(all, LAMBDA result : result # Null)

\* The argument historicalData is Undefined (absent) or Given(rows), rows a
\* sequence of DailyMetrics.
Undefined == [undefined |-> TRUE]
Given(rows) == [rows |-> rows]

calculateRollingCPA(historicalData, targetDate, dstShift) ==
    IF historicalData = Undefined \/ Len(historicalData.rows) = 0
    THEN Threw(ErrNoHistory)
    ELSE IF validateRealData(historicalData.rows) # Valid
         THEN Threw(validateRealData(historicalData.rows))
    ELSE Returned(SortByCPADesc(AdSetResults(historicalData.rows, targetDate, dstShift)))

---------------------------------------------------------------------------
(* calculateDailyConversionSummary *)

calculatePlatformMetrics(platformData) ==
    LET spend == SumOf(platformData, "spend")
        conversions == SumOf(platformData, "conversions")
    IN  [spend |-> spend,
         conversions |-> conversions,
         cpa |-> IF conversions > 0 THEN Frac(spend, conversions) ELSE Zero,
         adSets |-> Len(platformData)]

\* the summary of lines 688-715 over the records of the target date
DaySummary(dayData) ==
    LET totalSpend == SumOf(dayData, "spend")
        totalConversions == SumOf(dayData, "conversions")
        googleData == SelectSeq(dayData, LAMBDA record : record.platform = "google")
        facebookData == SelectSeq(dayData, LAMBDA record : record.platform = "facebook")
    IN  [totalSpend |-> totalSpend,
         totalConversions |-> totalConversions,
         averageCPA |-> IF totalConversions > 0
                        THEN Frac(totalSpend, totalConversions) ELSE Zero,
         adSetCount |-> Len(dayData),
         platformBreakdown |->
             [google |-> calculatePlatformMetrics(googleData),
              facebook |-> calculatePlatformMetrics(facebookData)]]

\* calculateDailyConversionSummary without the check of lines 684-686
calculateDailyConversionSummary_NoCheck(data, targetDate) ==
    Returned(DaySummary(SelectSeq(data, LAMBDA record : record.date = targetDate)))

calculateDailyConversionSummary(data, targetDate) ==
    LET dayData == SelectSeq(data, LAMBDA record : record.date = targetDate)
    IN  IF Len(dayData) = 0 THEN Threw(ErrNoDayData)
        ELSE Returned(DaySummary(dayData))

---------------------------------------------------------------------------
(* The caller: ingestion and function applications *)

NoCall == [fn |-> "none"]
NoRet == [status |-> "idle"]

NoFile == [written |-> FALSE]

\* nothing held, the script not started, the component just mounted
InitCaller ==
    /\ history = <<>>
    /\ rowsAdded = 0
    /\ call = NoCall
    /\ ret = NoRet

InitSyncIdle ==
    /\ pc = "idle"
    /\ isDryRun = FALSE
    /\ supabase = FALSE
    /\ enrichedData = <<>>
    /\ savedFile = NoFile
    /\ upserts = <<>>

InitComponent ==
    /\ file = Null
    /\ isProcessing = FALSE
    /\ parsedData = Null
    /\ chartData = <<>>
    /\ parses = <<>>

Init == InitCaller /\ InitSyncIdle /\ InitComponent

\* A pass ingests one more record; results derived earlier are discarded
\* (they are recomputed on demand, never kept).
IngestRecord ==
    /\ rowsAdded < MaxRows
    /\ \E record \in Records : history' = Append(history, record)
    /\ rowsAdded' = rowsAdded + 1
    /\ call' = NoCall
    /\ ret' = NoRet
    /\ UNCHANGED <<syncVars, uiVars>>

\* A first pass ingests an ad set's steady daily figures for consecutive days.
IngestSeries ==
    /\ history = <<>>
    /\ \E ad \in AdSets, v \in SeriesValues, n \in {SeriesLen - 1, SeriesLen} :
           history' = DailySeries(ad, v, n)
    /\ call' = NoCall
    /\ ret' = NoRet
    /\ UNCHANGED rowsAdded
    /\ UNCHANGED <<syncVars, uiVars>>

\* The caller applies a function to what it holds; it holds one outcome at a
\* time.
RollingCPA ==
    /\ call = NoCall
    /\ \E targetDate \in Days, dstShift \in DstShifts :
           /\ call' = [fn |-> "calculateRollingCPA", data |-> Given(history),
                       targetDate |-> targetDate, dstShift |-> dstShift]
           /\ ret' = calculateRollingCPA(Given(history), targetDate, dstShift)
    /\ UNCHANGED <<history, rowsAdded>>
    /\ UNCHANGED <<syncVars, uiVars>>

\* Before anything was ingested the caller may have no collection at all.
RollingCPAWithoutData ==
    /\ call = NoCall
    /\ history = <<>>
    /\ \E targetDate \in Days, dstShift \in DstShifts :
           /\ call' = [fn |-> "calculateRollingCPA", data |-> Undefined,
                       targetDate |-> targetDate, dstShift |-> dstShift]
           /\ ret' = calculateRollingCPA(Undefined, targetDate, dstShift)
    /\ UNCHANGED <<history, rowsAdded>>
    /\ UNCHANGED <<syncVars, uiVars>>

DailyConversionSummary ==
    /\ call = NoCall
    /\ \E targetDate \in Days :
           /\ call' = [fn |-> "calculateDailyConversionSummary",
                       data |-> Given(history), targetDate |-> targetDate]
           /\ ret' = calculateDailyConversionSummary(history, targetDate)
    /\ UNCHANGED <<history, rowsAdded>>
    /\ UNCHANGED <<syncVars, uiVars>>

\* The caller drops the outcome it holds.
Discard ==
    /\ call # NoCall
    /\ call' = NoCall
    /\ ret' = NoRet
    /\ UNCHANGED <<history, rowsAdded>>
    /\ UNCHANGED <<syncVars, uiVars>>

Next ==
    \/ IngestRecord
    \/ IngestSeries
    \/ RollingCPA
    \/ RollingCPAWithoutData
    \/ DailyConversionSummary
    \/ Discard

Spec == Init /\ [][Next]_vars

---------------------------------------------------------------------------
(* Vocabulary of the properties.  Dates are compared as calendar days.     *)

RollingCalled == call.fn = "calculateRollingCPA"
RollingReturned == RollingCalled /\ ret.status = "returned"
SummaryCalled == call.fn = "calculateDailyConversionSummary"

AdSetIdsPresent == {history[i].adSetId : i \in DOMAIN history}

\* the records of an ad set dated from day lo to day hi, in ingestion order
RowsBetween(id, lo, hi) ==
    SelectSeq(history, LAMBDA r : r.adSetId = id /\ lo <= r.date /\ r.date <= hi)

\* the seven calendar days [T - 6, T] of an ad set
CalendarWindow(id, T) == RowsBetween(id, T - 6, T)

\* positions in the returned list of the results of an ad set
ResultsFor(id) == {i \in DOMAIN ret.value : ret.value[i].adSetId = id}

\* exactly ten records, one on each of the days T - 9 .. T, each with spend
\* 100 and conversions 10
SteadyTenDays(id, T) ==
    LET own == {i \in DOMAIN history : history[i].adSetId = id}
    IN  /\ Cardinality(own) = 10
        /\ \A d \in (T - 9)..T : \E i \in own : history[i].date = d
        /\ \A i \in own : history[i].spend = 100 /\ history[i].conversions = 10

\* the result P2 of the specification names, with the given dataPoints
SteadyResult(r, points) ==
    /\ r.rolling7DayAvgCPA = <<10, 1>>
    /\ r.dataPoints = points
    /\ r.changePercent = <<0, 1>>
    /\ r.trend = "stable"

---------------------------------------------------------------------------
(* C1 *)

\* C1 as stated: for an ad set with exactly 10 consecutive daily records of
\* spend 100 / conversions 10, calculateRollingCPA at the last date returns
\* a result for it with rolling7DayAvgCPA = 10, dataPoints = 7,
\* changePercent = 0, trend = 'stable'.  (Stated for a zone without a clock
\* change in the span.)
C1_SteadyTenDaysReturned ==
    (RollingCalled /\ call.data # Undefined /\ call.dstShift = 0) =>
        \A id \in AdSetIdsPresent :
            SteadyTenDays(id, call.targetDate) =>
                /\ ret.status = "returned"
                /\ \E i \in ResultsFor(id) : SteadyResult(ret.value[i], 7)

\* C1 amended: whenever the batch passes the integrity guard, an ad set with
\* exactly 10 consecutive daily records of spend 100 / conversions 10 gets,
\* at the last date, rolling7DayAvgCPA = 10, changePercent = 0, trend =
\* 'stable' and dataPoints = 7 (6 when the clocks went forward inside the
\* span, which drops day T - 6 from the window); the ten records alone do
\* not pass the guard (they share one costPerConversion) and the call throws.
C1_SteadyTenDaysWhenAccepted ==
    RollingCalled /\ call.data # Undefined =>
        \A id \in AdSetIdsPresent :
            SteadyTenDays(id, call.targetDate) =>
                /\ ret.status = "returned" =>
                       /\ Cardinality(ResultsFor(id)) = 1
                       /\ \A i \in ResultsFor(id) :
                              SteadyResult(ret.value[i],
                                           IF call.dstShift > 0 THEN 6 ELSE 7)
                /\ AdSetIdsPresent = {id} =>
                       ret.status = "threw" /\ ret.error = ErrMock

C1_Witness ==
    /\ RollingReturned
    /\ call.dstShift = 0
    /\ \E id \in AdSetIdsPresent :
           /\ SteadyTenDays(id, call.targetDate)
           /\ \E i \in ResultsFor(id) : SteadyResult(ret.value[i], 7)

---------------------------------------------------------------------------
(* C2 *)

\* C2: for every ad set and target date T the rolling average is computed
\* from exactly the ad set's records dated in [T - 6, T]: each of them
\* contributes to the sums (so an ad set with such a record has a result,
\* whose dataPoints counts them and whose average is the ratio of their
\* sums) and no other record does.
C2_WindowIsSevenCalendarDays ==
    RollingReturned =>
        \A id \in AdSetIdsPresent :
            LET window == CalendarWindow(id, call.targetDate)
                spend == SumOf(window, "spend")
                conversions == SumOf(window, "conversions")
            IN  IF Len(window) = 0 THEN ResultsFor(id) = {}
                ELSE /\ ResultsFor(id) # {}
                     /\ \A i \in ResultsFor(id) :
                            /\ ret.value[i].dataPoints = Len(window)
                            /\ conversions > 0 =>
                                   ret.value[i].rolling7DayAvgCPA[1] * conversions
                                       = spend * ret.value[i].rolling7DayAvgCPA[2]

---------------------------------------------------------------------------
(* C3 *)

\* C3: in every result dataPoints is the number of distinct calendar dates
\* of the ad set inside [T - 6, T], and never exceeds 7.  (Stated for a zone
\* without a clock change in the span.)
C3_DataPointsCountsDays ==
    RollingReturned /\ call.dstShift = 0 =>
        \A i \in DOMAIN ret.value :
            LET window == CalendarWindow(ret.value[i].adSetId, call.targetDate)
                dates == {window[j].date : j \in DOMAIN window}
            IN  /\ ret.value[i].dataPoints = Cardinality(dates)
                /\ ret.value[i].dataPoints <= 7

---------------------------------------------------------------------------
(* C4 *)

\* C4: currentDayCPA of an ad set's result is the costPerConversion of its
\* record dated exactly T when it has one (the first ingested, should there
\* be several); otherwise that of its most recent record, the one with the
\* greatest date (again the first ingested of them); and a missing record
\* for T never makes the call fail: a non-empty batch that passes
\* validation returns.
C4_CurrentDayRecord ==
    /\ RollingReturned =>
           \A i \in DOMAIN ret.value :
               LET own == {j \in DOMAIN history :
                               history[j].adSetId = ret.value[i].adSetId}
                   atT == {j \in own : history[j].date = call.targetDate}
                   newest == {j \in own : \A k \in own :
                                  history[k].date <= history[j].date}
                   first(set) == CHOOSE j \in set : \A k \in set : j <= k
                   chosen == IF atT # {} THEN first(atT) ELSE first(newest)
               IN  ret.value[i].currentDayCPA = history[chosen].costPerConversion
    /\ (RollingCalled /\ call.data # Undefined /\ history # <<>>
            /\ validateRealData(history) = Valid) => ret.status = "returned"

\* an ad set without a record for T whose result takes the CPA of its most
\* recent record, which differs from that of an older one
C4_Witness ==
    /\ RollingReturned
    /\ \E i \in DOMAIN ret.value :
           LET own == {j \in DOMAIN history :
                           history[j].adSetId = ret.value[i].adSetId}
           IN  /\ \A j \in own : history[j].date # call.targetDate
               /\ \E j, k \in own :
                      /\ history[j].date < history[k].date
                      /\ history[j].costPerConversion # history[k].costPerConversion
                      /\ ret.value[i].currentDayCPA = history[k].costPerConversion

---------------------------------------------------------------------------
(* C5 *)

DistinctAdSets(results) ==
    \A i, j \in DOMAIN results : results[i].adSetId = results[j].adSetId => i = j

\* C5 as stated: for a non-empty input that passes the integrity guard the
\* call returns exactly one result per distinct adSetId present: none
\* missing, none duplicated.  (Stated for a zone without a clock change in
\* the span.)
C5_OneResultPerAdSet ==
    (RollingCalled /\ call.data # Undefined /\ call.dstShift = 0
        /\ history # <<>> /\ validateRealData(history) = Valid) =>
        /\ ret.status = "returned"
        /\ DistinctAdSets(ret.value)
        /\ {ret.value[i].adSetId : i \in DOMAIN ret.value} = AdSetIdsPresent

\* C5 amended: for a non-empty input that passes the integrity guard the
\* call returns (sparse history never makes it fail) at most one result per
\* distinct adSetId present: exactly one for each ad set with a record in
\* the window the engine applies (the days T - 6 .. T, without day T - 6
\* when the clocks went forward inside the span), and none for an ad set
\* without such a record, which is skipped.
C5_OneResultPerAdSetInWindow ==
    (RollingCalled /\ call.data # Undefined
        /\ history # <<>> /\ validateRealData(history) = Valid) =>
        /\ ret.status = "returned"
        /\ DistinctAdSets(ret.value)
        /\ \A id \in AdSetIdsPresent :
               LET T == call.targetDate
                   from == IF call.dstShift > 0 THEN T - 5 ELSE T - 6
               IN  Cardinality(ResultsFor(id)) =
                       IF Len(RowsBetween(id, from, T)) > 0 THEN 1 ELSE 0
        /\ \A i \in DOMAIN ret.value : ret.value[i].adSetId \in AdSetIdsPresent

\* two ad sets present, one with a result and one skipped
C5_Witness ==
    /\ RollingReturned
    /\ Len(ret.value) = 1
    /\ Cardinality(AdSetIdsPresent) = 2
    /\ \E id \in AdSetIdsPresent :
           ResultsFor(id) = {} /\ Len(CalendarWindow(id, call.targetDate)) = 0

---------------------------------------------------------------------------
(* C6 *)

NoConversionsShape(r) ==
    /\ r.rolling7DayAvgCPA = <<0, 1>>
    /\ r.changePercent = <<100, 1>>
    /\ r.trend = "worsening"

AllWithoutConversions(rows) == \A j \in DOMAIN rows : rows[j].conversions = 0

\* C6 as stated: if every record of an ad set inside the 7-day window has
\* conversions = 0 (window non-empty), the call reports for that ad set
\* rolling7DayAvgCPA = 0, changePercent = 100, trend = 'worsening'.
\* (Stated for a zone without a clock change in the span.)
C6_NoConversionsReported ==
    (RollingCalled /\ call.data # Undefined /\ call.dstShift = 0) =>
        \A id \in AdSetIdsPresent :
            LET window == CalendarWindow(id, call.targetDate)
            IN  (Len(window) > 0 /\ AllWithoutConversions(window)) =>
                    /\ ret.status = "returned"
                    /\ \E i \in ResultsFor(id) : NoConversionsShape(ret.value[i])

\* C6 amended: whenever the call returns (the batch passed the integrity
\* guard, which a batch of several records all without conversions does not:
\* they share costPerConversion 0), every result of an ad set whose records
\* inside the 7-day window all have conversions = 0 has rolling7DayAvgCPA =
\* 0, changePercent = 100 and trend = 'worsening'; the zero conversion sum
\* is never a divisor.
C6_NoConversionsWhenReturned ==
    /\ RollingReturned =>
           \A i \in DOMAIN ret.value :
               AllWithoutConversions(CalendarWindow(ret.value[i].adSetId,
                                                    call.targetDate))
                   => NoConversionsShape(ret.value[i])
    /\ (RollingCalled /\ call.data # Undefined /\ Len(history) > 1
            /\ AllWithoutConversions(history)) =>
           ret.status = "threw" /\ ret.error = ErrMock

\* a result of an ad set whose window holds records, none with a conversion
C6_Witness ==
    /\ RollingReturned
    /\ \E i \in DOMAIN ret.value :
           LET window == CalendarWindow(ret.value[i].adSetId, call.targetDate)
           IN  /\ Len(window) > 1
               /\ AllWithoutConversions(window)
               /\ NoConversionsShape(ret.value[i])

---------------------------------------------------------------------------
(* C7 *)

\* C7: whenever the summed conversions of the window [T - 6, T] is greater
\* than zero, a result of the ad set has rolling7DayAvgCPA = (sum of window
\* spend) / (sum of window conversions), changeFromRollingAvg =
\* currentDayCPA - rolling7DayAvgCPA and changePercent =
\* (changeFromRollingAvg / rolling7DayAvgCPA) * 100, for every input the
\* integrity guard accepts.  With S / C the ratio of sums and n / d the
\* currentDayCPA: average = S / C, change = (n C - S d) / (d C),
\* percent = 100 (n C - S d) / (d S).
C7_RatioOfSums ==
    RollingReturned =>
        \A id \in AdSetIdsPresent :
            LET window == CalendarWindow(id, call.targetDate)
                S == SumOf(window, "spend")
                C == SumOf(window, "conversions")
            IN  C > 0 =>
                    \A i \in ResultsFor(id) :
                        LET r == ret.value[i]
                            n == r.currentDayCPA[1]
                            d == r.currentDayCPA[2]
                        IN  /\ r.rolling7DayAvgCPA[1] * C
                                   = S * r.rolling7DayAvgCPA[2]
                            /\ r.changeFromRollingAvg[1] * (d * C)
                                   = (n * C - S * d) * r.changeFromRollingAvg[2]
                            /\ r.changePercent[1] * (d * S)
                                   = 100 * (n * C - S * d) * r.changePercent[2]

---------------------------------------------------------------------------
(* C8 *)

\* C8: in every result (those whose window has conversions > 0 included)
\* trend is 'stable' exactly when |changePercent| < 5, 'worsening' exactly
\* when changePercent >= 5 and 'improving' exactly when changePercent <= -5,
\* whatever the arguments of the call.  changePercent is n / d with d > 0.
C8_TrendBand ==
    RollingReturned =>
        \A i \in DOMAIN ret.value :
            LET n == ret.value[i].changePercent[1]
                d == ret.value[i].changePercent[2]
                trend == ret.value[i].trend
            IN  /\ d > 0
                /\ trend \in {"stable", "worsening", "improving"}
                /\ trend = "stable" <=> (n < 5 * d /\ -n < 5 * d)
                /\ trend = "worsening" <=> n >= 5 * d
                /\ trend = "improving" <=> n <= -5 * d

\* a result exactly on the band, 5% above a rolling average with conversions
C8_Witness ==
    /\ RollingReturned
    /\ \E i \in DOMAIN ret.value :
           /\ ret.value[i].changePercent = <<5, 1>>
           /\ ret.value[i].rolling7DayAvgCPA # <<0, 1>>
           /\ ret.value[i].trend = "worsening"

---------------------------------------------------------------------------
(* C9 *)

\* C9 as stated: the returned list is sorted strictly descending by
\* currentDayCPA: of two adjacent results the earlier has a strictly greater
\* currentDayCPA.
C9_StrictlyDescending ==
    RollingReturned =>
        \A i \in DOMAIN ret.value :
            i + 1 \in DOMAIN ret.value =>
                ret.value[i + 1].currentDayCPA[1] * ret.value[i].currentDayCPA[2]
                    < ret.value[i].currentDayCPA[1] * ret.value[i + 1].currentDayCPA[2]

\* C9 amended: the returned list is sorted descending by currentDayCPA, not
\* strictly: of two adjacent results the earlier has a currentDayCPA greater
\* than or equal to that of the later (ad sets may tie).
C9_Descending ==
    RollingReturned =>
        \A i \in DOMAIN ret.value :
            i + 1 \in DOMAIN ret.value =>
                ret.value[i + 1].currentDayCPA[1] * ret.value[i].currentDayCPA[2]
                    <= ret.value[i].currentDayCPA[1] * ret.value[i + 1].currentDayCPA[2]

\* two results in an order the loop over the ad sets did not produce: the ad
\* set ingested first comes second, with a strictly lower currentDayCPA
C9_Witness ==
    /\ RollingReturned
    /\ Len(ret.value) = 2
    /\ ret.value[2].adSetId = history[1].adSetId
    /\ ret.value[2].currentDayCPA[1] * ret.value[1].currentDayCPA[2]
           < ret.value[1].currentDayCPA[1] * ret.value[2].currentDayCPA[2]

---------------------------------------------------------------------------
(* C10 *)

\* C10: an empty input is an error of the call, never an empty success:
\* calculateRollingCPA with an empty or absent history throws instead of
\* returning a list, and calculateDailyConversionSummary throws when no
\* record has the target date instead of returning an all-zero summary.
C10_EmptyInputThrows ==
    /\ (RollingCalled /\ (call.data = Undefined \/ history = <<>>)) =>
           ret.status = "threw" /\ ret.error = ErrNoHistory
    /\ (SummaryCalled
            /\ \A j \in DOMAIN history : history[j].date # call.targetDate) =>
           ret.status = "threw" /\ ret.error = ErrNoDayData
    /\ (SummaryCalled /\ ret.status = "returned") => ret.value.adSetCount > 0

\* a summary asked of a non-empty collection for a date none of its records has
C10_Witness ==
    /\ SummaryCalled
    /\ history # <<>>
    /\ \A j \in DOMAIN history : history[j].date # call.targetDate
    /\ ret.status = "threw"

---------------------------------------------------------------------------
(* detectMockData (src/src/utils/dataValidation.ts), the standalone        *)
(* detector.  It reads the fields spend, conversions, id and               *)
(* conversion_rate of records of any shape; a field a record does not have *)
(* reads as undefined.                                                     *)

MsgRoundSpends == "Too many round number spends detected"
MsgTestIds == "Test/mock IDs detected in data"
MsgConversionRates == "Unrealistic conversion rates detected"
MsgIdenticalMetrics == "Identical metrics across records (possible mock data)"

\* record.id || ''
IdOrEmpty(record) == IF "id" \in DOMAIN record THEN record.id ELSE ""

\* record.conversion_rate === 5.0 || record.conversion_rate === 10.0
PerfectConversionRate(record) ==
    IF "conversion_rate" \in DOMAIN record
    THEN record.conversion_rate = 5 \/ record.conversion_rate = 10
    ELSE FALSE

RoundSpend(record) == record.spend % 100 = 0 /\ record.spend > 100

\* the messages pushed, in order
detectMockData(data) ==
    IF Len(data) = 0 THEN <<>>
    ELSE
    LET \* data.filter(test).length
        roundCount == Cardinality({i \in DOMAIN data : RoundSpend(data[i])})
        testIdCount ==
            Cardinality({i \in DOMAIN data : MatchesTestPattern(IdOrEmpty(data[i]))})
        rateCount == Cardinality({i \in DOMAIN data : PerfectConversionRate(data[i])})
        roundSpends == roundCount * 2 > Len(data)
        testIds == testIdCount > 0
        rates == rateCount > 2
        identical == Len(data) > 1
                     /\ Cardinality({<<data[i].spend, data[i].conversions>> :
                                        i \in DOMAIN data}) = 1
    IN  (IF roundSpends THEN <<MsgRoundSpends>> ELSE <<>>)
        \o (IF testIds THEN <<MsgTestIds>> ELSE <<>>)
        \o (IF rates THEN <<MsgConversionRates>> ELSE <<>>)
        \o (IF identical THEN <<MsgIdenticalMetrics>> ELSE <<>>)

---------------------------------------------------------------------------
(* The integrity guard under batches of any shape.  A caller assembles a   *)
(* batch record by record, from records that are plausible, suspicious or  *)
(* structurally broken, and hands it to calculateRollingCPA or to          *)
(* detectMockData.                                                         *)

MaxBatch == 3
GuardDay == 8

GuardAdSets ==
    {[adSetId |-> "fb_alpha_000", adSetName |-> "Alpha", platform |-> "facebook"],
     [adSetId |-> "gads_77", adSetName |-> "Beta", platform |-> "google"],
     [adSetId |-> "gads_78", adSetName |-> "test_campaign", platform |-> "google"],
     [adSetId |-> "test_1", adSetName |-> "Gamma", platform |-> "facebook"],
     [adSetId |-> "", adSetName |-> "Delta", platform |-> "facebook"],
     [adSetId |-> "", adSetName |-> "demo_campaign", platform |-> "facebook"]}

PlainAdSet == [adSetId |-> "fb_alpha_000", adSetName |-> "Alpha", platform |-> "facebook"]
PlainValue == <<150, 10>>

\* <<spend, conversions>>: two round spends, plausible figures, more
\* conversions than spend, and negative figures
GuardValues ==
    {<<200, 10>>, <<300, 10>>, PlainValue, <<45, 3>>, <<5, 10>>, <<-5, 1>>,
     <<50, -1>>, <<-5, -10>>}

\* each record departs from the plain one in the ad set, in the figures or
\* in the date
GuardRecords ==
    {DailyMetrics(ad, GuardDay, PlainValue[1], PlainValue[2]) : ad \in GuardAdSets}
    \cup {DailyMetrics(PlainAdSet, GuardDay, v[1], v[2]) : v \in GuardValues}
    \cup {DailyMetrics(PlainAdSet, NoDate, PlainValue[1], PlainValue[2])}

IngestGuardRecord ==
    /\ rowsAdded < MaxBatch
    /\ \E record \in GuardRecords : history' = Append(history, record)
    /\ rowsAdded' = rowsAdded + 1
    /\ call' = NoCall
    /\ ret' = NoRet
    /\ UNCHANGED <<syncVars, uiVars>>

\* calculateRollingCPA for the day of the batch, in a zone without a clock
\* change in the span
GuardedRollingCPA ==
    /\ call = NoCall
    /\ call' = [fn |-> "calculateRollingCPA", data |-> Given(history),
                targetDate |-> GuardDay, dstShift |-> 0]
    /\ ret' = calculateRollingCPA(Given(history), GuardDay, 0)
    /\ UNCHANGED <<history, rowsAdded>>
    /\ UNCHANGED <<syncVars, uiVars>>

DetectMock ==
    /\ call = NoCall
    /\ call' = [fn |-> "detectMockData", data |-> Given(history)]
    /\ ret' = Returned(detectMockData(history))
    /\ UNCHANGED <<history, rowsAdded>>
    /\ UNCHANGED <<syncVars, uiVars>>

NextGuard ==
    \/ IngestGuardRecord
    \/ GuardedRollingCPA
    \/ DetectMock
    \/ Discard

SpecGuard == Init /\ [][NextGuard]_vars

DetectCalled == call.fn = "detectMockData"

\* Properties of a batch, stated on the records themselves
RoundRecords(data) ==
    {i \in DOMAIN data : data[i].spend > 100
                         /\ \E k \in 1..10 : data[i].spend = 100 * k}
MostlyRound(data) == 2 * Cardinality(RoundRecords(data)) > Len(data)
IsIn(message, messages) == \E i \in DOMAIN messages : messages[i] = message

---------------------------------------------------------------------------
(* C11.  The guard inside calculateRollingCPA rejects a batch whenever     *)
(* more than half of its records have a spend that is a multiple of 100    *)
(* above 100, and the standalone detector flags the same batches.          *)
C11_MostlyRoundRejected ==
    /\ (RollingCalled /\ MostlyRound(history)) => ret.status = "threw"
    /\ (DetectCalled /\ MostlyRound(history)) => IsIn(MsgRoundSpends, ret.value)

(* C12.  A batch of more than one record in which every record has the     *)
(* same costPerConversion is rejected: calculateRollingCPA throws the      *)
(* integrity error and returns nothing.                                    *)
C12_SameCPARejected ==
    (/\ RollingCalled
     /\ Len(history) > 1
     /\ \A i, j \in DOMAIN history :
            history[i].costPerConversion = history[j].costPerConversion)
    => (ret.status = "threw" /\ ret.error = ErrMock)

C12_Witness ==
    /\ RollingCalled
    /\ Len(history) = SeriesLen
    /\ \A i \in DOMAIN history : history[i].costPerConversion = <<10, 1>>
    /\ ret.status = "threw"

(* C13.  The guard rejects a batch if any record's adSetId or adSetName    *)
(* matches the test pattern, also when the id is an ordinary one and only  *)
(* the name matches.                                                       *)
C13_TestIdOrNameRejected ==
    (/\ RollingCalled
     /\ \E i \in DOMAIN history :
            \/ MatchesTestPattern(history[i].adSetId)
            \/ MatchesTestPattern(history[i].adSetName))
    => ret.status = "threw"

(* C14.  If any record of the batch has conversions > spend,               *)
(* calculateRollingCPA throws the integrity error: no result is produced   *)
(* for any ad set, also not for the ad sets whose records are plausible.   *)
C14_HardStop ==
    (/\ RollingCalled
     /\ \E i \in DOMAIN history : history[i].conversions > history[i].spend)
    => (ret.status = "threw" /\ ret.error = ErrMock)

C14_Witness ==
    /\ RollingCalled
    /\ ret.status = "threw"
    /\ \E i, j \in DOMAIN history :
           /\ history[i].spend >= 0
           /\ history[i].conversions > history[i].spend
           /\ history[j].adSetId # history[i].adSetId
           /\ validateRealData(<<history[j]>>) = Valid
           /\ \A k \in DOMAIN history : k # i => history[k] = history[j]

(* C15.  A batch whose only defect is a negative spend or a negative       *)
(* conversions value makes calculateRollingCPA throw one of the two        *)
(* structural errors, not the mock-data error.                             *)
OnlyDefectNegative(data) ==
    /\ \E i \in DOMAIN data : data[i].spend < 0 \/ data[i].conversions < 0
    /\ \A i \in DOMAIN data :
           /\ data[i].date # NoDate
           /\ data[i].adSetId # ""
           /\ ~MatchesTestPattern(data[i].adSetId)
           /\ ~MatchesTestPattern(data[i].adSetName)
           /\ (data[i].spend >= 0 /\ data[i].conversions >= 0)
                  => data[i].conversions <= data[i].spend
    /\ RoundRecords(data) = {}
    /\ Len(data) > 1 => \E i, j \in DOMAIN data :
                            data[i].costPerConversion # data[j].costPerConversion

C15_NegativeIsMalformed ==
    (RollingCalled /\ OnlyDefectNegative(history))
    => (ret.status = "threw" /\ ret.error \in {ErrFormat, ErrNegative})

---------------------------------------------------------------------------
(* getSignificantCPAChanges (FacebookCSVUpload.tsx, lines 638-663).        *)
(* thresholds is Undefined when the caller omits the argument (the default *)
(* parameter value applies), otherwise a record of the three percentages.  *)

DefaultThresholds == [critical |-> 25, warning |-> 15, improvement |-> -10]

\* result.changePercent > thresholds.critical
IsCritical(result, thresholds) ==
    FracLt(FracOfInt(thresholds.critical), result.changePercent)

IsWarning_BelowCritical(result, thresholds) ==
    /\ FracLt(FracOfInt(thresholds.warning), result.changePercent)
    /\ FracLt(result.changePercent, FracOfInt(thresholds.critical))

\* result.changePercent > thresholds.warning
\*     && result.changePercent <= thresholds.critical
IsWarning(result, thresholds) ==
    /\ FracLt(FracOfInt(thresholds.warning), result.changePercent)
    /\ ~FracLt(FracOfInt(thresholds.critical), result.changePercent)

\* result.changePercent < thresholds.improvement
IsImprovement(result, thresholds) ==
    FracLt(result.changePercent, FracOfInt(thresholds.improvement))

getSignificantCPAChanges(rollingResults, thresholds) ==
    LET t == IF thresholds = Undefined THEN DefaultThresholds ELSE thresholds
    IN  [critical |-> SelectSeq(rollingResults, LAMBDA result : IsCritical(result, t)),
         warning |-> SelectSeq(rollingResults, LAMBDA result : IsWarning(result, t)),
         improvements |-> SelectSeq(rollingResults,
                                    LAMBDA result : IsImprovement(result, t))]

---------------------------------------------------------------------------
(* The classifier under lists of results.  The caller holds a list of      *)
(* RollingCPAResult (history) and classifies it, with the default          *)
(* thresholds or with its own.                                             *)

MaxResults == 3

\* A result as calculateAdSetRollingCPA builds it from the current day's
\* CPA and the rolling average
RollingCPAResult(ad, currentDayCPA, rolling7DayAvgCPA) ==
    LET changeFromRollingAvg == FracSub(currentDayCPA, rolling7DayAvgCPA)
        changePercent ==
            IF FracLt(Zero, rolling7DayAvgCPA)
            THEN FracMul(FracDiv(changeFromRollingAvg, rolling7DayAvgCPA), FracOfInt(100))
            ELSE Zero
    IN  [adSetId |-> ad.adSetId,
         adSetName |-> ad.adSetName,
         platform |-> ad.platform,
         currentDayCPA |-> currentDayCPA,
         rolling7DayAvgCPA |-> rolling7DayAvgCPA,
         changeFromRollingAvg |-> changeFromRollingAvg,
         changePercent |-> changePercent,
         trend |-> Trend(changePercent),
         dataPoints |-> 7]

\* <<currentDayCPA, rolling7DayAvgCPA>>: changes of 30, 25.5, 25, 18, 15,
\* 2, -10 and -15 percent
CPAPairs ==
    {<<FracOfInt(130), FracOfInt(100)>>, <<Frac(251, 2), FracOfInt(100)>>,
     <<FracOfInt(125), FracOfInt(100)>>, <<FracOfInt(118), FracOfInt(100)>>,
     <<FracOfInt(115), FracOfInt(100)>>, <<FracOfInt(102), FracOfInt(100)>>,
     <<FracOfInt(90), FracOfInt(100)>>, <<FracOfInt(85), FracOfInt(100)>>}

RollingResults == {RollingCPAResult(ad, p[1], p[2]) : ad \in AdSets, p \in CPAPairs}

\* Overrides a caller may pass: stricter, warning above critical, and an
\* improvement threshold above the warning or the critical one
ThresholdOverrides ==
    {[critical |-> 50, warning |-> 30, improvement |-> -20],
     [critical |-> 10, warning |-> 20, improvement |-> -10],
     [critical |-> 25, warning |-> 15, improvement |-> 20],
     [critical |-> 25, warning |-> 15, improvement |-> 40]}

AddResult ==
    /\ rowsAdded < MaxResults
    /\ \E result \in RollingResults : history' = Append(history, result)
    /\ rowsAdded' = rowsAdded + 1
    /\ call' = NoCall
    /\ ret' = NoRet
    /\ UNCHANGED <<syncVars, uiVars>>

ClassifyWithDefaults ==
    /\ call = NoCall
    /\ call' = [fn |-> "getSignificantCPAChanges", thresholds |-> Undefined]
    /\ ret' = Returned(getSignificantCPAChanges(history, Undefined))
    /\ UNCHANGED <<history, rowsAdded>>
    /\ UNCHANGED <<syncVars, uiVars>>

ClassifyWithOverrides ==
    /\ call = NoCall
    /\ \E thresholds \in ThresholdOverrides :
           /\ call' = [fn |-> "getSignificantCPAChanges", thresholds |-> thresholds]
           /\ ret' = Returned(getSignificantCPAChanges(history, thresholds))
    /\ UNCHANGED <<history, rowsAdded>>
    /\ UNCHANGED <<syncVars, uiVars>>

NextClassify ==
    \/ AddResult
    \/ ClassifyWithDefaults
    \/ ClassifyWithOverrides
    \/ Discard

SpecClassify == Init /\ [][NextClassify]_vars

ClassifyCalled == call.fn = "getSignificantCPAChanges"
Bucket(name) == ret.value[name]
InBucket(result, name) == \E k \in DOMAIN Bucket(name) : Bucket(name)[k] = result
\* the positions of the input whose changePercent n/d satisfies a condition
Positions(Cond(_, _)) ==
    {i \in DOMAIN history : Cond(history[i].changePercent[1], history[i].changePercent[2])}
BucketIs(name, Cond(_, _)) ==
    /\ Len(Bucket(name)) = Cardinality(Positions(Cond))
    /\ \A i \in DOMAIN history : InBucket(history[i], name) <=> i \in Positions(Cond)
    /\ \A k \in DOMAIN Bucket(name) : \E i \in DOMAIN history : history[i] = Bucket(name)[k]

(* C16.  With the default thresholds a result is in critical iff its       *)
(* changePercent is above 25, in warning iff it is above 15 and at most    *)
(* 25, in improvements iff it is below -10, and in no bucket otherwise.    *)
C16_DefaultBuckets ==
    (ClassifyCalled /\ call.thresholds = Undefined) =>
        /\ BucketIs("critical", LAMBDA n, d : n > 25 * d)
        /\ BucketIs("warning", LAMBDA n, d : n > 15 * d /\ n <= 25 * d)
        /\ BucketIs("improvements", LAMBDA n, d : n < (-10) * d)

C16_Witness ==
    /\ ClassifyCalled
    /\ call.thresholds = Undefined
    /\ Len(history) = 3
    /\ history[1].changePercent = <<25, 1>>
    /\ history[2].changePercent = <<15, 1>>
    /\ history[3].changePercent = <<-10, 1>>
    /\ ret.value.critical = <<>>
    /\ ret.value.warning = <<history[1]>>
    /\ ret.value.improvements = <<>>

(* C17.  Whatever the thresholds, each result of the input is in at most   *)
(* one of the buckets critical, warning and improvements.                  *)
C17_AtMostOneBucket ==
    ClassifyCalled =>
        \A i \in DOMAIN history :
            Cardinality({name \in {"critical", "warning", "improvements"} :
                            InBucket(history[i], name)}) <= 1

---------------------------------------------------------------------------
(* convertToCPAChartData (src/src/utils/facebookCSVParser.ts, lines        *)
(* 212-254).  A date string is a day number, as above: the Map is keyed by *)
(* the string and the sort compares new Date(string).getTime(), which      *)
(* order ISO date strings alike.                                           *)

ChartWindowBack == 6

RECURSIVE AddToDay(_, _)
\* dailyData.set(metric.date, existing + metric): a Map keeps a key at the
\* position of its first insertion
AddToDay(dailyData, metric) ==
    IF dailyData = <<>>
    THEN <<[date |-> metric.date, spend |-> metric.spend,
            conversions |-> metric.conversions]>>
    ELSE IF dailyData[1].date = metric.date
         THEN <<[date |-> metric.date,
                 spend |-> dailyData[1].spend + metric.spend,
                 conversions |-> dailyData[1].conversions + metric.conversions]>>
              \o Tail(dailyData)
         ELSE <<dailyData[1]>> \o AddToDay(Tail(dailyData), metric)

RECURSIVE GroupByDate_LastWins(_)
GroupByDate_LastWins(dailyMetrics) ==
    IF dailyMetrics = <<>> THEN <<>>
    ELSE LET n == Len(dailyMetrics)
             rest == GroupByDate_LastWins(SubSeq(dailyMetrics, 1, n - 1))
             metric == dailyMetrics[n]
         IN  SelectSeq(rest, LAMBDA day : day.date # metric.date)
             \o <<[date |-> metric.date, spend |-> metric.spend,
                   conversions |-> metric.conversions]>>

RECURSIVE GroupByDate(_)
\* lines 214-222: the entries of dailyData after the loop, in Map order
GroupByDate(dailyMetrics) ==
    IF dailyMetrics = <<>> THEN <<>>
    ELSE LET n == Len(dailyMetrics)
         IN  AddToDay(GroupByDate(SubSeq(dailyMetrics, 1, n - 1)), dailyMetrics[n])

RECURSIVE InsertByDateAsc(_, _)
\* position of an item in a list already in ascending date order: behind
\* every item that is not later (Array.prototype.sort is stable)
InsertByDateAsc(sorted, item) ==
    IF sorted = <<>> THEN <<item>>
    ELSE IF DateInstant(sorted[1].date) - DateInstant(item.date) <= 0
         THEN <<sorted[1]>> \o InsertByDateAsc(Tail(sorted), item)
         ELSE <<item>> \o sorted

RECURSIVE SortByDateAsc(_)
SortByDateAsc(items) ==
    IF items = <<>> THEN <<>>
    ELSE InsertByDateAsc(SortByDateAsc(SubSeq(items, 1, Len(items) - 1)),
                         items[Len(items)])

\* lines 225-232
SortedData(dailyMetrics) ==
    LET entries == GroupByDate(dailyMetrics)
    IN  SortByDateAsc([i \in DOMAIN entries |->
                          [date |-> entries[i].date,
                           spend |-> entries[i].spend,
                           conversions |-> entries[i].conversions,
                           dailyCPA |-> IF entries[i].conversions > 0
                                        THEN Frac(entries[i].spend, entries[i].conversions)
                                        ELSE Zero]])

WindowStart_EightPoints(index) ==
    IF index - (ChartWindowBack + 1) > 1 THEN index - (ChartWindowBack + 1) ELSE 1

\* Math.max(0, index - 6), for the positions 1..n of a sequence
WindowStart(index) ==
    IF index - ChartWindowBack > 1 THEN index - ChartWindowBack ELSE 1

convertToCPAChartData(dailyMetrics) ==
    LET sortedData == SortedData(dailyMetrics)
        Point(index) ==
            LET window == SubSeq(sortedData, WindowStart(index), index)
                windowSpend == SumOf(window, "spend")
                windowConversions == SumOf(window, "conversions")
            IN  [date |-> sortedData[index].date,
                 dailyCPA |-> sortedData[index].dailyCPA,
                 rolling7DayAvg |-> IF windowConversions > 0
                                    THEN Frac(windowSpend, windowConversions)
                                    ELSE Zero,
                 spend |-> sortedData[index].spend,
                 conversions |-> sortedData[index].conversions]
    IN  [index \in DOMAIN sortedData |-> Point(index)]

---------------------------------------------------------------------------
(* The chart builder under uploads.  The caller holds the DailyMetrics of  *)
(* an upload (history): one ad set's daily rows, on consecutive days or on *)
(* every second day, and a few rows of other days or ad sets.              *)

ChartLen == 9
MaxChartRows == 2

\* the figures of the k-th day of the series: spend grows, conversions
\* cycle through 1, 2, 0
ChartSeries(ad, step, n) ==
    [k \in 1..n |-> DailyMetrics(ad, k * step, 20 + 10 * k, k % 3)]

ChartRecords ==
    {DailyMetrics(ad, d, v[1], v[2]) :
        ad \in AdSets, d \in {3, 4, 20}, v \in {<<100, 10>>, <<50, 0>>}}

IngestChartSeries ==
    /\ history = <<>>
    /\ \E ad \in {PlainAdSet}, step \in {1, 2}, n \in {ChartLen - 1, ChartLen} :
           history' = ChartSeries(ad, step, n)
    /\ call' = NoCall
    /\ ret' = NoRet
    /\ UNCHANGED rowsAdded
    /\ UNCHANGED <<syncVars, uiVars>>

IngestChartRecord ==
    /\ rowsAdded < MaxChartRows
    /\ \E record \in ChartRecords : history' = Append(history, record)
    /\ rowsAdded' = rowsAdded + 1
    /\ call' = NoCall
    /\ ret' = NoRet
    /\ UNCHANGED <<syncVars, uiVars>>

ConvertToChart ==
    /\ call = NoCall
    /\ call' = [fn |-> "convertToCPAChartData", data |-> Given(history)]
    /\ ret' = Returned(convertToCPAChartData(history))
    /\ UNCHANGED <<history, rowsAdded>>
    /\ UNCHANGED <<syncVars, uiVars>>

NextChart ==
    \/ IngestChartSeries
    \/ IngestChartRecord
    \/ ConvertToChart
    \/ Discard

SpecChart == Init /\ [][NextChart]_vars

ChartCalled == call.fn = "convertToCPAChartData"
InputDates == {history[k].date : k \in DOMAIN history}
\* the records of the input dated within a set of days
RecordsOn(days) == SelectSeq(history, LAMBDA record : record.date \in days)
\* val equals spend / conversions, or 0 when conversions is 0
IsRatio(val, spend, conversions) ==
    IF conversions = 0 THEN val = <<0, 1>>
    ELSE val[1] * conversions = spend * val[2] /\ val[2] > 0
\* the (at most) seven latest input dates up to and including date
SevenLatestDates(date) ==
    {d \in InputDates : d <= date
                        /\ Cardinality({e \in InputDates : d < e /\ e <= date}) <= 6}

(* C18.  convertToCPAChartData returns one point per distinct date of the  *)
(* input, in ascending date order; a point's spend and conversions are the *)
(* sums over all input records of its date, so the totals are conserved,   *)
(* and dailyCPA is spend / conversions of the date, 0 without conversions. *)
C18_OnePointPerDate ==
    ChartCalled =>
        LET chart == ret.value
        IN  /\ {chart[i].date : i \in DOMAIN chart} = InputDates
            /\ \A i, j \in DOMAIN chart : i < j => chart[i].date < chart[j].date
            /\ \A i \in DOMAIN chart :
                   /\ chart[i].spend = SumOf(RecordsOn({chart[i].date}), "spend")
                   /\ chart[i].conversions
                          = SumOf(RecordsOn({chart[i].date}), "conversions")
                   /\ IsRatio(chart[i].dailyCPA, chart[i].spend, chart[i].conversions)
            /\ SumOf(chart, "spend") = SumOf(history, "spend")
            /\ SumOf(chart, "conversions") = SumOf(history, "conversions")

C18_Witness ==
    /\ ChartCalled
    /\ Len(history) > Len(ret.value)
    /\ \E i \in DOMAIN ret.value :
           /\ Len(RecordsOn({ret.value[i].date})) = 3
           /\ \E k, l \in DOMAIN history :
                  /\ history[k].date = ret.value[i].date
                  /\ history[l].date = ret.value[i].date
                  /\ history[k].adSetId # history[l].adSetId
           /\ ret.value[i].conversions > 0
    /\ \E i \in DOMAIN ret.value : ret.value[i].conversions = 0

(* C19.  The rolling7DayAvg of the point at index i is the sum of spend    *)
(* over the sum of conversions of the points max(0, i-6) .. i of the       *)
(* date-sorted series (0 without conversions), that is of the seven latest *)
(* dates up to the point's date, however far apart those dates are.        *)
C19_IndexWindow ==
    ChartCalled =>
        \A i \in DOMAIN ret.value :
            LET window == RecordsOn(SevenLatestDates(ret.value[i].date))
            IN  IsRatio(ret.value[i].rolling7DayAvg,
                        SumOf(window, "spend"), SumOf(window, "conversions"))

C19_Witness ==
    /\ ChartCalled
    /\ \E i \in DOMAIN ret.value :
           /\ i > 7
           /\ ret.value[i].date - ret.value[i - 6].date > 6
           /\ Cardinality(SevenLatestDates(ret.value[i].date)) = 7
           /\ ret.value[i].rolling7DayAvg # <<0, 1>>
           /\ LET calendar == RecordsOn((ret.value[i].date - 6)..ret.value[i].date)
              IN  ~IsRatio(ret.value[i].rolling7DayAvg,
                           SumOf(calendar, "spend"), SumOf(calendar, "conversions"))

---------------------------------------------------------------------------
(* processFacebookCSVData (src/src/utils/facebookCSVParser.ts, lines       *)
(* 94-207).  A row is what Papa.parse delivers with header: true: a        *)
(* function from header to cell text; a column the file does not have      *)
(* reads as undefined, which every use below treats like the empty text.   *)
(* The text functions of JavaScript are given by their values on the cell  *)
(* texts of the model.  Amounts are whole numbers; a day number n is the   *)
(* date 2025-01-n.  With cells that are all strings no statement of the    *)
(* loop body throws, so the catch of lines 180-182 is never entered.       *)

Headers ==
    {"Ad set name", "Ad Set Name", "Amount spent (AUD)", "Amount Spent",
     "Results", "Cost per results", "Cost per Result", "Reporting starts",
     "Reporting Starts", "Reporting ends", "Reporting Ends", "Ad set delivery"}

\* a || b for strings
OrElse(a, b) == IF a # "" THEN a ELSE b

NaN == [nan |-> TRUE]
Num(n) == [nan |-> FALSE, value |-> n]

\* text.replace(/[$,]/g, '')
StripCurrency(text) ==
    CASE text = "$500.00" -> "500.00"
      [] text = "$600.00" -> "600.00"
      [] text = "$523.00" -> "523.00"
      [] text = "$0.00" -> "0.00"
      [] text = "1,100" -> "1100"
      [] OTHER -> text

\* parseFloat(text): the longest numeric prefix, NaN without one
ParseFloat(text) ==
    CASE text = "500.00" -> Num(500)
      [] text = "600.00" -> Num(600)
      [] text = "523.00" -> Num(523)
      [] text = "1100" -> Num(1100)
      [] text = "0.00" -> Num(0)
      [] text = "0" -> Num(0)
      [] text = "-5" -> Num(-5)
      [] text = "-1" -> Num(-1)
      [] text = "10" -> Num(10)
      [] text = "12" -> Num(12)
      [] text = "50.00" -> Num(50)
      [] text = "60" -> Num(60)
      [] text = "1,100" -> Num(1)
      [] OTHER -> NaN

\* text.trim()
Trim(text) == IF text = "   " THEN "" ELSE text

\* name.toLowerCase().replace(/[^a-z0-9]/g, '_').substring(0, 20)
NameHash(name) ==
    CASE name = "Alpha" -> "alpha"
      [] name = "Beta" -> "beta"
      [] OTHER -> "_"

\* index.toString().padStart(3, '0')
PadStart3(index) ==
    IF index < 10 THEN "00" \o ToString(index)
    ELSE IF index < 100 THEN "0" \o ToString(index)
    ELSE ToString(index)

generateAdSetId_NameOnly(adSetName, index) ==
    "fb_" \o NameHash(adSetName) \o "_" \o PadStart3(0)

generateAdSetId(adSetName, index) ==
    "fb_" \o NameHash(adSetName) \o "_" \o PadStart3(index)

\* dateString.includes('/')
HasSlash(dateString) == dateString \in {"01/02/2025"}

\* the day a date text denotes, NoDate when new Date(text) is invalid
CalendarDay(dateString) ==
    CASE dateString = "2025-01-01" -> 1
      [] dateString = "2025-01-03" -> 3
      [] dateString = "01/02/2025" -> 2
      [] OTHER -> NoDate

\* A text with slashes becomes new Date(year, month - 1, day), LOCAL
\* midnight, and toISOString() prints the UTC date of that instant: the day
\* before in a zone east of Greenwich.  A text with dashes is parsed as UTC.
\* An invalid date falls back to yesterday.
normalizeDate(dateString, zoneEast, yesterday) ==
    IF CalendarDay(dateString) = NoDate THEN yesterday
    ELSE IF HasSlash(dateString) /\ zoneEast THEN CalendarDay(dateString) - 1
    ELSE CalendarDay(dateString)

IsInactive_OnlyInactive(adSetDelivery) == adSetDelivery = "inactive"

\* lines 119-122
IsInactive(adSetDelivery) ==
    adSetDelivery = "inactive" \/ adSetDelivery = "not_delivering"

IsInvalid_NaNOnly(number) == number.nan

\* isNaN(x) || x < 0, lines 130 and 136
IsInvalid(number) == number.nan \/ number.value < 0

RowError(index, kind) == [row |-> index + 2, kind |-> kind]
ErrInvalidSpend == "Invalid spend amount"
ErrInvalidResults == "Invalid results count"
WarnMismatch == "CPA calculation mismatch"
WarnNoDate == "No date found, using yesterday"

StoredCPA_TrustSupplied(spend, conversions, costPerResultValue) ==
    IF ~costPerResultValue.nan THEN FracOfInt(costPerResultValue.value)
    ELSE IF conversions > 0 THEN Frac(spend, conversions) ELSE Zero

\* line 173: the stored value is derived from the row's own figures; the
\* figure of the cost column, in scope here, is not used
StoredCPA(spend, conversions, costPerResultValue) ==
    IF conversions > 0 THEN Frac(spend, conversions) ELSE Zero

NoRows ==
    [data |-> <<>>, errors |-> <<>>, totalSpend |-> 0, totalConversions |-> 0,
     dates |-> <<>>]

\* One pass of the for loop (lines 101-183) for the row at index i, counted
\* from 0; acc holds data, errors, the totals and dates
ProcessRow(acc, row, i, zoneEast, yesterday) ==
    LET adSetName == OrElse(row["Ad set name"], row["Ad Set Name"])
        amountSpent == OrElse(row["Amount spent (AUD)"], row["Amount Spent"])
        results == OrElse(row["Results"], "0")
        costPerResult == OrElse(row["Cost per results"], row["Cost per Result"])
        reportingStart == OrElse(row["Reporting starts"], row["Reporting Starts"])
        reportingEnd == OrElse(row["Reporting ends"], row["Reporting Ends"])
        adSetDelivery == row["Ad set delivery"]
        spend == ParseFloat(StripCurrency(amountSpent))
        conversions == ParseFloat(results)
        costPerResultValue == ParseFloat(StripCurrency(costPerResult))
        calculatedCPA == IF conversions.value > 0
                         THEN Frac(spend.value, conversions.value) ELSE Zero
        mismatch ==
            /\ ~costPerResultValue.nan
            /\ FracLt(Frac(1, 100),
                      FracAbs(FracSub(calculatedCPA, FracOfInt(costPerResultValue.value))))
            /\ conversions.value > 0
        reportingDate ==
            IF reportingStart # "" THEN normalizeDate(reportingStart, zoneEast, yesterday)
            ELSE IF reportingEnd # "" THEN normalizeDate(reportingEnd, zoneEast, yesterday)
            ELSE yesterday
        warnings ==
            (IF mismatch THEN <<RowError(i, WarnMismatch)>> ELSE <<>>)
            \o (IF reportingStart = "" /\ reportingEnd = ""
                THEN <<RowError(i, WarnNoDate)>> ELSE <<>>)
        metrics ==
            [date |-> reportingDate,
             platform |-> "facebook",
             adSetId |-> generateAdSetId(adSetName, i),
             adSetName |-> Trim(adSetName),
             spend |-> spend.value,
             conversions |-> conversions.value,
             costPerConversion |-> StoredCPA(spend.value, conversions.value,
                                             costPerResultValue)]
    IN  IF adSetName = "" \/ Trim(adSetName) = "" THEN acc
        ELSE IF IsInactive(adSetDelivery) THEN acc
        ELSE IF IsInvalid(spend)
             THEN [acc EXCEPT !.errors = Append(@, RowError(i, ErrInvalidSpend))]
        ELSE IF IsInvalid(conversions)
             THEN [acc EXCEPT !.errors = Append(@, RowError(i, ErrInvalidResults))]
        ELSE IF spend.value = 0 THEN acc
        ELSE [data |-> Append(acc.data, metrics),
              errors |-> acc.errors \o warnings,
              totalSpend |-> acc.totalSpend + spend.value,
              totalConversions |-> acc.totalConversions + conversions.value,
              dates |-> Append(acc.dates, reportingDate)]

RECURSIVE ProcessRows(_, _, _)
\* the state of the loop after the rows at indices 0 .. Len(rows) - 1
ProcessRows(rows, zoneEast, yesterday) ==
    IF rows = <<>> THEN NoRows
    ELSE LET n == Len(rows)
         IN  ProcessRow(ProcessRows(SubSeq(rows, 1, n - 1), zoneEast, yesterday),
                        rows[n], n - 1, zoneEast, yesterday)

\* uniqueDates[0] || '' and uniqueDates[uniqueDates.length - 1] || '' of the
\* sorted distinct dates
DateRange(dates) ==
    LET days == {dates[i] : i \in DOMAIN dates}
    IN  IF days = {} THEN [start |-> NoDate, end |-> NoDate]
        ELSE [start |-> CHOOSE d \in days : \A e \in days : d <= e,
              end |-> CHOOSE d \in days : \A e \in days : e <= d]

\* success reported for every file that has rows
processFacebookCSVData_SuccessIfRows(rows, zoneEast, yesterday) ==
    LET acc == ProcessRows(rows, zoneEast, yesterday)
    IN  [success |-> Len(rows) > 0,
         data |-> acc.data,
         errors |-> acc.errors,
         summary |->
             [totalRows |-> Len(rows),
              validRows |-> Len(acc.data),
              totalSpend |-> acc.totalSpend,
              totalConversions |-> acc.totalConversions,
              averageCPA |-> IF acc.totalConversions > 0
                             THEN Frac(acc.totalSpend, acc.totalConversions)
                             ELSE Zero,
              dateRange |-> DateRange(acc.dates)]]

processFacebookCSVData(rows, zoneEast, yesterday) ==
    LET acc == ProcessRows(rows, zoneEast, yesterday)
    IN  [success |-> Len(acc.data) > 0,
         data |-> acc.data,
         errors |-> acc.errors,
         summary |->
             [totalRows |-> Len(rows),
              validRows |-> Len(acc.data),
              totalSpend |-> acc.totalSpend,
              totalConversions |-> acc.totalConversions,
              averageCPA |-> IF acc.totalConversions > 0
                             THEN Frac(acc.totalSpend, acc.totalConversions)
                             ELSE Zero,
              dateRange |-> DateRange(acc.dates)]]

---------------------------------------------------------------------------
(* The normaliser under export files.  The caller holds the rows of a file *)
(* (history) and normalises them; the zone of the process and the date of  *)
(* yesterday are inputs of the call.                                       *)

MaxCsvRows == 2
Yesterdays == {20}

EmptyRow == [h \in Headers |-> ""]

\* a delivering ad set: 500 spent, 10 results, dated 2025-01-01
BaseRow ==
    [EmptyRow EXCEPT !["Ad set name"] = "Alpha",
                     !["Amount spent (AUD)"] = "$500.00",
                     !["Results"] = "10",
                     !["Reporting starts"] = "2025-01-01",
                     !["Ad set delivery"] = "active"]

\* the header and the texts a row of the model may carry instead of the
\* base row's
CellChanges ==
    {<<"Ad set name", "">>, <<"Ad set name", "   ">>, <<"Ad set name", "Beta">>,
     <<"Ad set delivery", "inactive">>, <<"Ad set delivery", "not_delivering">>,
     <<"Ad set delivery", "">>,
     <<"Amount spent (AUD)", "0">>, <<"Amount spent (AUD)", "$0.00">>,
     <<"Amount spent (AUD)", "abc">>, <<"Amount spent (AUD)", "-5">>,
     <<"Amount spent (AUD)", "1,100">>, <<"Amount spent (AUD)", "$600.00">>,
     <<"Amount spent (AUD)", "">>,
     <<"Results", "">>, <<"Results", "0">>, <<"Results", "abc">>,
     <<"Results", "-1">>, <<"Results", "12">>, <<"Results", "1,100">>,
     <<"Cost per results", "50.00">>, <<"Cost per results", "60">>,
     <<"Cost per Result", "60">>,
     <<"Reporting starts", "">>, <<"Reporting starts", "01/02/2025">>,
     <<"Reporting starts", "yesterday">>, <<"Reporting starts", "2025-01-03">>}

Changed(row, change) == [row EXCEPT ![change[1]] = change[2]]

\* rows that use the other spelling of a header, or the end date only
AliasRows ==
    {[EmptyRow EXCEPT !["Ad Set Name"] = "Alpha", !["Amount Spent"] = "$500.00",
                      !["Results"] = "10", !["Reporting Starts"] = "2025-01-01"],
     [EmptyRow EXCEPT !["Ad set name"] = "Alpha", !["Amount spent (AUD)"] = "$500.00",
                      !["Results"] = "10", !["Reporting ends"] = "2025-01-03"]}

\* rows with two departures: no spend and an unusable or absent results
\* cell, and an inactive ad set without spend
ZeroSpendRows ==
    {Changed(Changed(BaseRow, <<"Amount spent (AUD)", "0">>), change) :
        change \in {<<"Results", "abc">>, <<"Results", "-1">>, <<"Results", "0">>,
                    <<"Ad set delivery", "inactive">>}}

\* rows that are skipped before their figures are read: a line without any
\* text, and an inactive ad set without an amount
UnreadRows ==
    {EmptyRow,
     Changed(Changed(BaseRow, <<"Ad set delivery", "inactive">>),
             <<"Amount spent (AUD)", "">>)}

CsvRows ==
    {BaseRow} \cup {Changed(BaseRow, change) : change \in CellChanges}
    \cup AliasRows \cup ZeroSpendRows \cup UnreadRows

\* transformAdGroupData (src/scripts/sync-google-ads.js, lines 96-118), the
\* normaliser of the rows of the Google Ads API.  The metrics of a row are
\* numbers; spend is the exact quotient cost_micros / 1,000,000.
MicrosPerUnit == 1000000

transformAdGroupData(row, now) ==
    LET spend == Frac(row.metrics.cost_micros, MicrosPerUnit)
        conversions == row.metrics.conversions
        impressions == row.metrics.impressions
        clicks == row.metrics.clicks
    IN  [id |-> "ga_" \o row.ad_group.id,
         name |-> row.ad_group.name,
         campaign_name |-> row.campaign.name,
         platform |-> "google",
         date |-> row.segments.date,
         spend |-> spend,
         conversions |-> conversions,
         cost_per_conversion |-> IF conversions > 0
                                 THEN FracDiv(spend, FracOfInt(conversions))
                                 ELSE Zero,
         impressions |-> impressions,
         clicks |-> clicks,
         click_through_rate |-> IF impressions > 0
                                THEN FracMul(Frac(clicks, impressions), FracOfInt(100))
                                ELSE Zero,
         conversion_rate |-> IF clicks > 0
                             THEN FracMul(Frac(conversions, clicks), FracOfInt(100))
                             ELSE Zero,
         source |-> "google_ads_api",
         sync_timestamp |-> now]

ApiRow(id, cost_micros, conversions) ==
    [ad_group |-> [id |-> id, name |-> "Group " \o id],
     campaign |-> [id |-> "c1", name |-> "Campaign"],
     metrics |-> [cost_micros |-> cost_micros, conversions |-> conversions,
                  impressions |-> 1000, clicks |-> 40],
     segments |-> [date |-> 8]]

\* <<ad group id, cost_micros, conversions>> of the ad groups of one day, in
\* the order the API returns them
ApiFigures ==
    <<  <<"103", 80000000, 3>>, <<"101", 120000000, 4>>, <<"105", 40000000, 8>>,
        <<"102", 95500000, 0>>, <<"106", 20000000, 1>>, <<"104", 60000000, 2>>  >>

ApiRows ==
    {ApiRow(ApiFigures[i][1], ApiFigures[i][2], ApiFigures[i][3]) :
        i \in DOMAIN ApiFigures}

SyncTimes == {"2025-01-09T02:00:00.000Z"}

TransformAdGroup ==
    /\ call = NoCall
    /\ \E row \in ApiRows, now \in SyncTimes :
           /\ call' = [fn |-> "transformAdGroupData", row |-> row]
           /\ ret' = Returned(transformAdGroupData(row, now))
    /\ UNCHANGED <<history, rowsAdded>>
    /\ UNCHANGED <<syncVars, uiVars>>

AddCsvRow ==
    /\ rowsAdded < MaxCsvRows
    /\ \E row \in CsvRows : history' = Append(history, row)
    /\ rowsAdded' = rowsAdded + 1
    /\ call' = NoCall
    /\ ret' = NoRet
    /\ UNCHANGED <<syncVars, uiVars>>

NormalizeCsv ==
    /\ call = NoCall
    /\ \E zoneEast \in BOOLEAN, yesterday \in Yesterdays :
           /\ call' = [fn |-> "processFacebookCSVData", rows |-> history,
                       zoneEast |-> zoneEast, yesterday |-> yesterday]
           /\ ret' = Returned(processFacebookCSVData(history, zoneEast, yesterday))
    /\ UNCHANGED <<history, rowsAdded>>
    /\ UNCHANGED <<syncVars, uiVars>>

NextCsv ==
    \/ AddCsvRow
    \/ NormalizeCsv
    \/ TransformAdGroup
    \/ Discard

SpecCsv == Init /\ [][NextCsv]_vars

NormalizeCalled == call.fn = "processFacebookCSVData"

\* Kinds of rows, stated on the cell texts
RowName(row) == IF row["Ad set name"] # "" THEN row["Ad set name"] ELSE row["Ad Set Name"]
RowAmount(row) ==
    IF row["Amount spent (AUD)"] # "" THEN row["Amount spent (AUD)"]
    ELSE row["Amount Spent"]
BlankName(row) == RowName(row) \in {"", "   "}
MarkedInactive(row) == row["Ad set delivery"] \in {"inactive", "not_delivering"}
ZeroSpend(row) == RowAmount(row) \in {"0", "$0.00"}
\* a results cell that is empty or reads as a number that is not negative
UsableResults(row) == row["Results"] \in {"", "0", "10", "12", "1,100"}
\* what the row at position k (from 1) left in the result
RecordsOfRow(k) ==
    {i \in DOMAIN ret.value.data :
        ret.value.data[i].adSetId \in {generateAdSetId(name, k - 1) :
                                          name \in {"Alpha", "Beta"}}}
ErrorsOfRow(k) == {i \in DOMAIN ret.value.errors : ret.value.errors[i].row = k + 1}
Silent(k) == RecordsOfRow(k) = {} /\ ErrorsOfRow(k) = {}
LaterRowsProcessed(k) ==
    \A j \in DOMAIN history :
        (j > k /\ history[j] = BaseRow) => Cardinality(RecordsOfRow(j)) = 1

(* C20 as stated.  A row with a blank ad set name, a row marked inactive   *)
(* or not delivering, and a row whose spend is zero each leave no record   *)
(* and no entry in errors, and the rows after them are still processed.    *)
C20_SkippedSilently ==
    NormalizeCalled =>
        \A k \in DOMAIN history :
            (BlankName(history[k]) \/ MarkedInactive(history[k]) \/ ZeroSpend(history[k]))
            => (Silent(k) /\ LaterRowsProcessed(k))

(* C20, amended.  A row with a blank ad set name, a row marked inactive or *)
(* not delivering, and a row whose spend is zero and whose results cell is *)
(* empty or reads as a non-negative number each leave no record and no     *)
(* entry in errors, and the rows after them are still processed; a row     *)
(* with zero spend never leaves a record.                                  *)
C20_SkippedSilentlyWhenResultsUsable ==
    NormalizeCalled =>
        \A k \in DOMAIN history :
            /\ (\/ BlankName(history[k])
                \/ MarkedInactive(history[k])
                \/ (ZeroSpend(history[k]) /\ UsableResults(history[k])))
               => (Silent(k) /\ LaterRowsProcessed(k))
            /\ ZeroSpend(history[k]) => (RecordsOfRow(k) = {} /\ LaterRowsProcessed(k))

C20_Witness ==
    /\ NormalizeCalled
    /\ Len(history) = 2
    /\ ZeroSpend(history[1])
    /\ ~BlankName(history[1])
    /\ ~MarkedInactive(history[1])
    /\ history[2] = BaseRow
    /\ Len(ret.value.data) = 1
    /\ ret.value.data[1].adSetId = "fb_alpha_001"
    /\ ret.value.errors = <<>>

---------------------------------------------------------------------------
\* cells that do not read as a number that is not negative
BadSpend(row) == RowAmount(row) \in {"", "abc", "-5"}
BadResults(row) == row["Results"] \in {"abc", "-1"}
ErrorKindsOfRow(k) == {ret.value.errors[i].kind : i \in ErrorsOfRow(k)}

(* C21 as stated.  A row whose spend or results cell does not read as a    *)
(* non-negative number leaves no record and an entry in errors that        *)
(* carries the row's number, and the rows after it are still processed.    *)
C21_BadRowRecorded ==
    NormalizeCalled =>
        \A k \in DOMAIN history :
            (BadSpend(history[k]) \/ BadResults(history[k]))
            => /\ RecordsOfRow(k) = {}
               /\ ErrorsOfRow(k) # {}
               /\ LaterRowsProcessed(k)

(* C21, amended.  Such a row never leaves a record and never stops the     *)
(* pass.  If its ad set name is not blank and it is not marked inactive or *)
(* not delivering it leaves exactly one entry in errors, numbered i + 2    *)
(* for the row at index i: the invalid spend if the spend is bad,          *)
(* otherwise the invalid results; if the name is blank or the row is       *)
(* marked inactive it leaves no entry.                                     *)
C21_BadRowRecordedWhenNamedAndActive ==
    NormalizeCalled =>
        \A k \in DOMAIN history :
            (BadSpend(history[k]) \/ BadResults(history[k]))
            => /\ RecordsOfRow(k) = {}
               /\ LaterRowsProcessed(k)
               /\ Cardinality(ErrorsOfRow(k))
                      = IF BlankName(history[k]) \/ MarkedInactive(history[k])
                        THEN 0 ELSE 1
               /\ ErrorKindsOfRow(k) \subseteq
                      {IF BadSpend(history[k]) THEN ErrInvalidSpend
                       ELSE ErrInvalidResults}

C21_Witness ==
    /\ NormalizeCalled
    /\ Len(history) = 2
    /\ BadSpend(history[1])
    /\ history[2] = BaseRow
    /\ ret.value.errors = <<[row |-> 2, kind |-> ErrInvalidSpend]>>
    /\ Len(ret.value.data) = 1
    /\ ret.value.data[1].adSetId = "fb_alpha_001"
    /\ ret.value.success

(* C22.  The result of a pass is consistent with itself: success holds iff *)
(* data has a record, validRows is the number of records of data,          *)
(* totalRows the number of input rows, and totalSpend and totalConversions *)
(* are the sums of spend and conversions over data.                        *)
C22_SelfConsistent ==
    NormalizeCalled =>
        LET result == ret.value
        IN  /\ result.success <=> Len(result.data) >= 1
            /\ result.summary.validRows = Len(result.data)
            /\ result.summary.totalRows = Len(history)
            /\ result.summary.totalSpend = SumOf(result.data, "spend")
            /\ result.summary.totalConversions = SumOf(result.data, "conversions")

C22_Witness ==
    /\ NormalizeCalled
    /\ Len(history) = 2
    /\ ret.value.data = <<>>
    /\ ret.value.errors # <<>>
    /\ ~ret.value.success
    /\ ret.value.summary.totalRows = 2
    /\ ret.value.summary.validRows = 0

\* the figure of the row's cost column, when it has one
SuppliedCost(row) ==
    IF row["Cost per results"] # "" THEN row["Cost per results"]
    ELSE row["Cost per Result"]
TransformCalled == call.fn = "transformAdGroupData"

(* C23.  Every record emitted by the CSV normaliser and by the Google Ads  *)
(* normaliser stores spend / conversions as its cost per conversion, 0     *)
(* without conversions, whatever the cost column of the row says; a row    *)
(* whose cost column differs from the derived value (50 for the base row)  *)
(* is emitted all the same, with one mismatch warning in errors.           *)
C23_DerivedCostStored ==
    /\ NormalizeCalled =>
           /\ \A i \in DOMAIN ret.value.data :
                  IsRatio(ret.value.data[i].costPerConversion,
                          ret.value.data[i].spend, ret.value.data[i].conversions)
           /\ \A k \in DOMAIN history :
                  history[k] \in {Changed(BaseRow, <<header, "60">>) :
                                     header \in {"Cost per results", "Cost per Result"}}
                  => /\ \E i \in RecordsOfRow(k) :
                            ret.value.data[i].costPerConversion = <<50, 1>>
                     /\ Cardinality(RecordsOfRow(k)) = 1
                     /\ ErrorKindsOfRow(k) = {WarnMismatch}
                     /\ Cardinality(ErrorsOfRow(k)) = 1
           /\ \A k \in DOMAIN history :
                  SuppliedCost(history[k]) \in {"", "50.00"} =>
                      WarnMismatch \notin ErrorKindsOfRow(k)
    /\ TransformCalled =>
           LET spend == ret.value.spend
               cpc == ret.value.cost_per_conversion
           IN  /\ spend[1] * MicrosPerUnit = call.row.metrics.cost_micros * spend[2]
               /\ IF ret.value.conversions > 0
                  THEN cpc[1] * ret.value.conversions * spend[2] = spend[1] * cpc[2]
                  ELSE cpc = <<0, 1>>

C23_Witness ==
    /\ NormalizeCalled
    /\ Len(history) = 1
    /\ SuppliedCost(history[1]) = "60"
    /\ Len(ret.value.data) = 1
    /\ ret.value.data[1].costPerConversion = <<50, 1>>
    /\ ret.value.errors = <<[row |-> 2, kind |-> WarnMismatch]>>
    /\ ret.value.success

(* C24.  After a pass at most one record exists per platform, adSetId and  *)
(* date, and rows that name the same ad set on the same date are combined  *)
(* into one record instead of being emitted as separate records.           *)
C24_DuplicatesCombined ==
    NormalizeCalled =>
        \A i, j \in DOMAIN ret.value.data :
            LET a == ret.value.data[i]
                b == ret.value.data[j]
            IN  /\ (a.platform = b.platform /\ a.adSetId = b.adSetId /\ a.date = b.date)
                       => i = j
                /\ (a.platform = b.platform /\ a.adSetName = b.adSetName
                    /\ a.date = b.date) => i = j

---------------------------------------------------------------------------
\* data with the records at positions i and j exchanged; every reordering
\* of a collection is a succession of such exchanges
Exchanged(data, i, j) ==
    [k \in DOMAIN data |-> IF k = i THEN data[j] ELSE IF k = j THEN data[i] ELSE data[k]]
ResultSet(outcome) ==
    IF outcome.status = "returned"
    THEN {outcome.value[k] : k \in DOMAIN outcome.value}
    ELSE {}

(* C25.  calculateRollingCPA gives every ad set the same result for every  *)
(* ordering of the same records and the same target date, also when an ad  *)
(* set has several records on one date.                                    *)
C25_OrderIndependent ==
    (RollingCalled /\ call.data = Given(history)) =>
        \A i, j \in DOMAIN history :
            LET other == calculateRollingCPA(Given(Exchanged(history, i, j)),
                                             call.targetDate, call.dstShift)
            IN  /\ other.status = ret.status
                /\ ResultSet(other) = ResultSet(ret)

(***************************************************************************)
(* The Google Ads sync: syncAdGroupPerformance                              *)
(* (src/scripts/sync-google-ads.js, lines 46-94) and what it calls.  The    *)
(* method is asynchronous; it yields at the API query, at the file write    *)
(* and at the upsert, and each of the three can fail.                       *)
(***************************************************************************)

\* what the API query resolves to: any selection of the day's ad groups, in
\* the order of the API
RECURSIVE Selected(_, _)
Selected(rows, keep) ==
    IF rows = <<>> THEN <<>>
    ELSE IF Len(rows) \in keep
         THEN Append(Selected(SubSeq(rows, 1, Len(rows) - 1), keep),
                     rows[Len(rows)])
         ELSE Selected(SubSeq(rows, 1, Len(rows) - 1), keep)

ApiResults ==
    {Selected([i \in DOMAIN ApiFigures |->
                   ApiRow(ApiFigures[i][1], ApiFigures[i][2], ApiFigures[i][3])],
              keep) : keep \in SUBSET DOMAIN ApiFigures}

\* adGroups.sort((a, b) => b.spend - a.spend), line 73: a stable sort, the
\* larger spend first
RECURSIVE InsertBySpendDesc(_, _)
InsertBySpendDesc(sorted, item) ==
    IF sorted = <<>> THEN <<item>>
    ELSE IF FracLt(sorted[1].spend, item.spend)
         THEN <<item>> \o sorted
         ELSE <<sorted[1]>> \o InsertBySpendDesc(Tail(sorted), item)

RECURSIVE SortBySpendDesc(_)
SortBySpendDesc(items) ==
    IF items = <<>> THEN <<>>
    ELSE InsertBySpendDesc(SortBySpendDesc(SubSeq(items, 1, Len(items) - 1)),
                           items[Len(items)])

\* .slice(0, 5), line 74
TopCount == 5

Top5(adGroups) ==
    LET sorted == SortBySpendDesc(adGroups)
    IN  SubSeq(sorted, 1, IF Len(sorted) < TopCount THEN Len(sorted) ELSE TopCount)

\* simulateChangePercent (lines 131-135): changes[index] || 0, the index
\* counted from 0
SimulatedChanges ==
    <<Frac(-152, 10), Frac(87, 10), Frac(-31, 10), Frac(124, 10), Frac(-78, 10)>>

simulateChangePercent(index) ==
    IF index + 1 \in DOMAIN SimulatedChanges /\ SimulatedChanges[index + 1] # Zero
    THEN SimulatedChanges[index + 1]
    ELSE Zero

\* calculateChanges (lines 120-129): each row and its change_percent
calculateChanges(currentData) ==
    [i \in DOMAIN currentData |->
        [change_percent |-> simulateChangePercent(i - 1)] @@ currentData[i]]

\* lines 69-79: what the method prepares from the rows of the API
EnrichedData(results, now) ==
    calculateChanges(Top5([i \in DOMAIN results |->
                              transformAdGroupData(results[i], now)]))

Written(data) == [written |-> TRUE, data |-> data]

\* the upload guard of line 85
ShouldUpload_WhenConfigured(dryRun, client) == client
ShouldUpload(dryRun, client) == ~dryRun /\ client

\* the script is started: the constructor has read DRY_RUN and SUPABASE_URL
\* (lines 23-27)
InitSync ==
    /\ InitCaller
    /\ InitComponent
    /\ pc = "idle"
    /\ isDryRun \in BOOLEAN
    /\ supabase \in BOOLEAN
    /\ enrichedData = <<>>
    /\ savedFile = NoFile
    /\ upserts = <<>>

\* syncAdGroupPerformance is called and awaits the query (line 68)
StartSync ==
    /\ pc = "idle"
    /\ pc' = "query"
    /\ UNCHANGED <<isDryRun, supabase, enrichedData, savedFile, upserts>>
    /\ UNCHANGED <<callerVars, uiVars>>

\* the query resolves: lines 69-82, up to the call of fs.writeFile
QueryReturns ==
    /\ pc = "query"
    /\ \E results \in ApiResults, now \in SyncTimes :
           enrichedData' = EnrichedData(results, now)
    /\ pc' = "save"
    /\ UNCHANGED <<isDryRun, supabase, savedFile, upserts>>
    /\ UNCHANGED <<callerVars, uiVars>>

\* the query rejects: the catch of lines 90-93 rethrows
QueryFails ==
    /\ pc = "query"
    /\ pc' = "failed"
    /\ UNCHANGED <<isDryRun, supabase, enrichedData, savedFile, upserts>>
    /\ UNCHANGED <<callerVars, uiVars>>

\* the file is written (line 152); lines 85-87 then either issue the upsert
\* (lines 163-167) or return
FileSaved ==
    /\ pc = "save"
    /\ savedFile' = Written(enrichedData)
    /\ IF ShouldUpload(isDryRun, supabase)
       THEN /\ upserts' = Append(upserts, enrichedData)
            /\ pc' = "upload"
       ELSE /\ upserts' = upserts
            /\ pc' = "done"
    /\ UNCHANGED <<isDryRun, supabase, enrichedData>>
    /\ UNCHANGED <<callerVars, uiVars>>

\* fs.writeFile rejects: nothing is written and the method throws
SaveFails ==
    /\ pc = "save"
    /\ pc' = "failed"
    /\ UNCHANGED <<isDryRun, supabase, enrichedData, savedFile, upserts>>
    /\ UNCHANGED <<callerVars, uiVars>>

\* the upsert answers without error (lines 173-175)
UpsertSucceeds ==
    /\ pc = "upload"
    /\ pc' = "done"
    /\ UNCHANGED <<isDryRun, supabase, enrichedData, savedFile, upserts>>
    /\ UNCHANGED <<callerVars, uiVars>>

\* the upsert answers with an error, which is thrown (lines 169-171, 176-179)
UpsertFails ==
    /\ pc = "upload"
    /\ pc' = "failed"
    /\ UNCHANGED <<isDryRun, supabase, enrichedData, savedFile, upserts>>
    /\ UNCHANGED <<callerVars, uiVars>>

NextSync ==
    \/ StartSync
    \/ QueryReturns
    \/ QueryFails
    \/ FileSaved
    \/ SaveFails
    \/ UpsertSucceeds
    \/ UpsertFails

SpecSync == InitSync /\ [][NextSync]_vars

----------------------------------------------------------------------------
\* vocabulary of the claims on the sync

\* the run has prepared its rows
Prepared == pc \in {"save", "upload", "done"}

\* the change_percent another answer of the API gives the ad group `id`
ChangeOf(data, id) ==
    {data[i].change_percent : i \in {j \in DOMAIN data : data[j].id = id}}

\* the rows of the answer `results` that the answer of this run has too, with
\* the same figures
SameRowIn(results, row) ==
    \E i \in DOMAIN results :
        /\ "ga_" \o results[i].ad_group.id = row.id
        /\ transformAdGroupData(results[i], row.sync_timestamp).cost_per_conversion
               = row.cost_per_conversion

\* C26 (as stated): the change_percent of a selected ad group does not depend
\* on its rank in the top-5 list: whenever another answer of the API holds the
\* same ad group with the same cost_per_conversion (and, as here, nothing
\* about a previous day differs), the ad group gets the same change_percent.
C26_ChangeIndependentOfRank ==
    Prepared =>
        \A i \in DOMAIN enrichedData : \A results \in ApiResults :
            SameRowIn(results, enrichedData[i]) =>
                \A change \in ChangeOf(EnrichedData(results, enrichedData[i].sync_timestamp),
                                       enrichedData[i].id) :
                    change = enrichedData[i].change_percent

\* the run was told not to touch the warehouse, or has no client for it
UploadDisabled == isDryRun \/ ~supabase

\* C28: a run with DRY_RUN = 'true', or without a Supabase URL, never issues
\* an upsert, and when it returns the file holds the rows it prepared; an
\* upsert, when one is issued, carries the rows the file already holds.
C28_DryRunNeverUpserts ==
    /\ UploadDisabled => upserts = <<>>
    /\ (UploadDisabled /\ pc = "done") => savedFile = Written(enrichedData)
    /\ upserts # <<>> =>
           /\ savedFile.written
           /\ Len(upserts) = 1
           /\ savedFile.data = upserts[1]
    /\ pc \in {"upload"} => upserts # <<>>

\* a dry run with a configured client has returned, rows in the file and
\* nothing sent
C28_Witness ==
    /\ isDryRun
    /\ supabase
    /\ pc = "done"
    /\ savedFile.written
    /\ savedFile.data # <<>>
    /\ upserts = <<>>

(***************************************************************************)
(* calculateRollingCPA of src/src/utils/dataValidation.ts (lines 72-102),   *)
(* the standalone rolling average, next to the engine's.                    *)
(***************************************************************************)

ErrHistoryRequired == "Historical data required for rolling CPA calculation"
ErrNoRecentData == "No data available for 7-day rolling calculation"

\* sevenDaysAgo.setDate(sevenDaysAgo.getDate() - 7), line 80
ValidationDaysBack == 7

\* the filter of lines 82-85
RecentData(historicalData, currentDate, dstShift) ==
    LET currentDateObj == DateInstant(currentDate)
        sevenDaysAgo == SetDateBack(currentDateObj, ValidationDaysBack, dstShift)
        InWindow(record) ==
            LET recordDate == DateInstant(record.date)
            IN  recordDate >= sevenDaysAgo /\ recordDate <= currentDateObj
    IN  SelectSeq(historicalData, InWindow)

dataValidation_calculateRollingCPA(historicalData, currentDate, dstShift) ==
    IF Len(historicalData) = 0 THEN Threw(ErrHistoryRequired)
    ELSE
    LET recentData == RecentData(historicalData, currentDate, dstShift)
        totalSpend == SumOf(recentData, "spend")
        totalConversions == SumOf(recentData, "conversions")
    IN  IF Len(recentData) = 0 THEN Threw(ErrNoRecentData)
        ELSE IF totalConversions = 0 THEN Returned(Zero)
        ELSE Returned(Frac(totalSpend, totalConversions))

\* the caller applies the standalone function to the records it holds
StandaloneRollingCPA ==
    /\ call = NoCall
    /\ \E currentDate \in Days, dstShift \in DstShifts :
           /\ call' = [fn |-> "dataValidation.calculateRollingCPA",
                       data |-> history,
                       targetDate |-> currentDate, dstShift |-> dstShift]
           /\ ret' = dataValidation_calculateRollingCPA(history, currentDate, dstShift)
    /\ UNCHANGED <<history, rowsAdded>>
    /\ UNCHANGED <<syncVars, uiVars>>

NextWindow ==
    \/ IngestRecord
    \/ IngestSeries
    \/ RollingCPA
    \/ StandaloneRollingCPA
    \/ Discard

SpecWindow == Init /\ [][NextWindow]_vars

----------------------------------------------------------------------------
\* vocabulary of the claim on the two rolling averages

StandaloneCalled == call.fn = "dataValidation.calculateRollingCPA"

SingleAdSet(data) == \A i, j \in DOMAIN data : data[i].adSetId = data[j].adSetId

\* what the engine answers for the same records, date and zone
EngineAnswer == calculateRollingCPA(Given(history), call.targetDate, call.dstShift)

\* C27 (as stated): for a history of one ad set and a current date on which
\* the standalone function and the engine both return a value, the standalone
\* average equals the engine's rolling7DayAvgCPA.
C27_SameRollingAverage ==
    (/\ StandaloneCalled
     /\ SingleAdSet(history)
     /\ ret.status = "returned"
     /\ EngineAnswer.status = "returned"
     /\ Len(EngineAnswer.value) = 1)
        => ret.value = EngineAnswer.value[1].rolling7DayAvgCPA

(***************************************************************************)
(* The upload component: FacebookCSVUpload                                  *)
(* (src/src/components/FacebookCSVUpload.tsx, lines 12-281).                *)
(* handleFileSelect is asynchronous: it sets the state, awaits              *)
(* parseFacebookCSV and then sets the state again.  Nothing cancels a call  *)
(* that is waiting, and the calls finish in any order.                      *)
(***************************************************************************)

\* calls of handleFileSelect that may wait at the same time
MaxInFlight == 3

\* 10 * 1024 * 1024, line 54
MaxFileSize == 10 * 1024 * 1024

UploadFile(name, size, rows) == [name |-> name, size |-> size, rows |-> rows]

\* the files the user has at hand: three exports with usable rows, an export
\* without any spend, a file that is not a CSV and one that is too large
UploadFiles ==
    {UploadFile("alpha.csv", 2048, <<BaseRow>>),
     UploadFile("BETA.CSV", 4096,
                <<Changed(BaseRow, <<"Ad set name", "Beta">>),
                  Changed(BaseRow, <<"Reporting starts", "01/02/2025">>)>>),
     UploadFile("gamma.csv", 3072,
                <<Changed(BaseRow, <<"Amount spent (AUD)", "$600.00">>)>>),
     UploadFile("paused.csv", 1024,
                <<Changed(BaseRow, <<"Amount spent (AUD)", "0">>)>>),
     UploadFile("notes.txt", 512, <<BaseRow>>),
     UploadFile("year.csv", MaxFileSize + 1, <<BaseRow>>)}

\* selectedFile.name.toLowerCase().endsWith('.csv'), on the names of the model
EndsWithCsv(name) ==
    name \in {"alpha.csv", "BETA.CSV", "gamma.csv", "paused.csv", "year.csv"}

\* parseFacebookCSV (facebookCSVParser.ts, lines 43-89): the promise always
\* resolves, for rows of text with the result of processFacebookCSVData
parseFacebookCSV(selectedFile, zoneEast, yesterday) ==
    processFacebookCSVData(selectedFile.rows, zoneEast, yesterday)

\* lines 69-73: the chart of a result, when it has one
ChartOfResult(result) ==
    IF result.success /\ Len(result.data) > 0
    THEN convertToCPAChartData(result.data)
    ELSE <<>>

\* handleFileSelect up to its await (lines 46-65)
handleFileSelect(selectedFile) ==
    IF ~EndsWithCsv(selectedFile.name) \/ selectedFile.size > MaxFileSize
    THEN UNCHANGED uiVars
    ELSE /\ file' = selectedFile
         /\ isProcessing' = TRUE
         /\ parsedData' = Null
         /\ chartData' = <<>>
         /\ parses' = Append(parses, selectedFile)

\* handleFileInput (lines 40-44): the input is disabled while isProcessing
SelectByInput ==
    /\ ~isProcessing
    /\ Len(parses) < MaxInFlight
    /\ \E selectedFile \in UploadFiles : handleFileSelect(selectedFile)
    /\ UNCHANGED <<callerVars, syncVars>>

\* handleDrop (lines 30-38): the drop zone takes a file at any time
DropFile ==
    /\ Len(parses) < MaxInFlight
    /\ \E selectedFile \in UploadFiles : handleFileSelect(selectedFile)
    /\ UNCHANGED <<callerVars, syncVars>>

\* a waiting call resumes (lines 66-90): result, chart, and the finally
ParseCompletes ==
    /\ \E k \in DOMAIN parses, zoneEast \in BOOLEAN, yesterday \in Yesterdays :
           LET result == parseFacebookCSV(parses[k], zoneEast, yesterday)
           IN  /\ parsedData' = result
               /\ chartData' = IF result.success /\ Len(result.data) > 0
                               THEN convertToCPAChartData(result.data)
                               ELSE chartData
               /\ parses' = SubSeq(parses, 1, k - 1)
                                \o SubSeq(parses, k + 1, Len(parses))
    /\ isProcessing' = FALSE
    /\ UNCHANGED file
    /\ UNCHANGED <<callerVars, syncVars>>

\* removeFile (lines 93-100): the button shows for a file and is disabled
\* while isProcessing
RemoveFile ==
    /\ file # Null
    /\ ~isProcessing
    /\ file' = Null
    /\ parsedData' = Null
    /\ chartData' = <<>>
    /\ UNCHANGED <<isProcessing, parses>>
    /\ UNCHANGED <<callerVars, syncVars>>

NextComponent ==
    \/ SelectByInput
    \/ DropFile
    \/ ParseCompletes
    \/ RemoveFile

SpecComponent == Init /\ [][NextComponent]_vars

----------------------------------------------------------------------------
\* vocabulary of the claim on the component

AllParsesFinished == parses = <<>>

\* what parsing the displayed file can give
ResultsOfFile(selectedFile) ==
    {parseFacebookCSV(selectedFile, zoneEast, yesterday) :
        zoneEast \in BOOLEAN, yesterday \in Yesterdays}

\* C29 (as stated): once every parse has finished, parsedData and chartData
\* are those of the displayed, most recently selected file, and chartData is
\* non-empty only if parsedData is that file's successful result; and
\* isProcessing is false only when no parse is in flight.
C29_StateBelongsToLatestFile ==
    /\ (AllParsesFinished /\ file # Null) =>
           \E result \in ResultsOfFile(file) :
               /\ parsedData = result
               /\ chartData = ChartOfResult(result)
    /\ (AllParsesFinished /\ chartData # <<>>) =>
           /\ file # Null
           /\ \E result \in ResultsOfFile(file) :
                  result.success /\ parsedData = result
    /\ ~isProcessing => parses = <<>>

(***************************************************************************)
(* The rolling engine on the output of one normalisation pass: the caller   *)
(* holds the rows of a file (history), normalises them with                 *)
(* processFacebookCSVData and hands the records to calculateRollingCPA.     *)
(***************************************************************************)

\* a row whose amount is not a multiple of 100
OddAmountRow == Changed(BaseRow, <<"Amount spent (AUD)", "$523.00">>)

\* rows of the same ad set with and without conversions, of another ad set,
\* of another day, and a row without spend (which is not emitted)
PassRows ==
    {BaseRow, OddAmountRow,
     Changed(OddAmountRow, <<"Results", "0">>),
     Changed(OddAmountRow, <<"Results", "12">>),
     Changed(OddAmountRow, <<"Ad set name", "Beta">>),
     Changed(OddAmountRow, <<"Reporting starts", "2025-01-03">>),
     Changed(BaseRow, <<"Amount spent (AUD)", "0">>)}

\* target dates: a day of the rows, and days after them
PassDates == {1, 3, 9, 10}

AddPassRow ==
    /\ rowsAdded < MaxCsvRows
    /\ \E row \in PassRows : history' = Append(history, row)
    /\ rowsAdded' = rowsAdded + 1
    /\ call' = NoCall
    /\ ret' = NoRet
    /\ UNCHANGED <<syncVars, uiVars>>

RollingCPAOfPass ==
    /\ call = NoCall
    /\ \E zoneEast \in BOOLEAN, yesterday \in Yesterdays,
          targetDate \in PassDates, dstShift \in DstShifts :
           LET pass == processFacebookCSVData(history, zoneEast, yesterday)
           IN  /\ call' = [fn |-> "calculateRollingCPA", data |-> Given(pass.data),
                           targetDate |-> targetDate, dstShift |-> dstShift]
               /\ ret' = calculateRollingCPA(Given(pass.data), targetDate, dstShift)
    /\ UNCHANGED <<history, rowsAdded>>
    /\ UNCHANGED <<syncVars, uiVars>>

NextPass ==
    \/ AddPassRow
    \/ RollingCPAOfPass
    \/ Discard

SpecPass == Init /\ [][NextPass]_vars

----------------------------------------------------------------------------
\* vocabulary of the claim on a pass

PassCalled == call.fn = "calculateRollingCPA" /\ call.data # Undefined

\* C30: the records of one pass carry pairwise distinct adSetIds, also when
\* two rows name the same ad set; and every RollingResult computed from the
\* records of one pass has dataPoints = 1 and changePercent 0 or 100.
C30_EachRowItsOwnAdSet ==
    PassCalled =>
        /\ \A i, j \in DOMAIN call.data.rows :
               i # j => call.data.rows[i].adSetId # call.data.rows[j].adSetId
        /\ ret.status = "returned" =>
               \A k \in DOMAIN ret.value :
                   /\ ret.value[k].dataPoints = 1
                   /\ ret.value[k].changePercent \in {Zero, FracOfInt(100)}

\* two rows naming the same ad set on the same day were emitted and the
\* engine answered with two results, one at 0 and one at 100
C30_Witness ==
    /\ PassCalled
    /\ ret.status = "returned"
    /\ Len(ret.value) = 2
    /\ Len(call.data.rows) = 2
    /\ call.data.rows[1].adSetName = call.data.rows[2].adSetName
    /\ call.data.rows[1].date = call.data.rows[2].date
    /\ \E k \in DOMAIN ret.value : ret.value[k].changePercent = Zero
    /\ \E k \in DOMAIN ret.value : ret.value[k].changePercent = FracOfInt(100)

====
